---- MODULE Spec2Model ----
(***************************************************************************)
(* A model of k3d: the cluster lifecycle commands (create, delete, stop,   *)
(* start) acting on a container engine, and the port-publishing resolver.  *)
(*                                                                         *)
(* Strings are TLA+ strings; a character is a string of length one and is  *)
(* read with SubSeq.  The container engine is the state: its containers,   *)
(* its networks, and, beside it, the cluster directories on the local      *)
(* file system.                                                            *)
(*                                                                         *)
(* Fault model: every engine call that changes the engine (image pull,     *)
(* container create/start/stop/remove, network create/remove) and the log  *)
(* fetch may fail; one behaviour holds at most MaxRmFailures failures of   *)
(* removal calls and at most MaxFailures failures of the other calls.  The *)
(* engine's list calls, the construction of the engine client and the      *)
(* local file system do not fail.                                          *)
(***************************************************************************)
EXTENDS Integers, Sequences, FiniteSets, Bags, TLC

VARIABLES
    containers,  \* the engine's containers: a set of container records
    networks,    \* the engine's networks: a bag of network records
    dirs,        \* the cluster names whose directory $HOME/.config/k3d/<name> exists
    pc,          \* "idle", or "waiting" while CreateCluster is in its readiness loop
    cc,          \* the context of the CreateCluster call that is in its readiness loop
    failures,    \* number of failed create, start, stop and log calls so far
    rmFailures,  \* number of failed removal calls so far
    last,        \* the outcome of the last command or loop iteration
    pp           \* the port resolver's call and its result (PortsSpec only)

vars == <<containers, networks, dirs, pc, cc, failures, rmFailures, last, pp>>

(***************************************************************************)
(* Bounds of the model.                                                    *)
(***************************************************************************)
MaxWorkers == 2     \* largest --workers value
MaxFailures == 1    \* failing create, start, stop and log calls in one behaviour
MaxRmFailures == 1  \* failing removal calls in one behaviour
MaxNetworks == 2    \* networks of one name the engine holds at once
MaxWait == 1        \* largest --wait value, in seconds
MaxElapsed == 2     \* the readiness loop is followed for this many seconds
MaxOffset == 2      \* largest --port-auto-offset value and Offset argument
MaxNamed == 11      \* largest worker count whose node names are generated
MaxCopies == 2      \* copies of the credentials file out of the server followed
MaxVersion == 2     \* versions of the credentials file the server writes
MaxAdded == 2       \* AddPort calls on one set of published ports

(***************************************************************************)
(* Strings.                                                                *)
(***************************************************************************)
Digits == <<"0", "1", "2", "3", "4", "5", "6", "7", "8", "9">>

CharAt(s, i) == SubSeq(s, i, i)

IsDigit(c) == \E d \in 1..10 : Digits[d] = c

DigitVal(c) == (CHOOSE d \in 1..10 : Digits[d] = c) - 1

IsLower(c) == c \in {"a", "b", "c", "d", "e", "f", "g", "h", "i", "j", "k", "l", "m",
                     "n", "o", "p", "q", "r", "s", "t", "u", "v", "w", "x", "y", "z"}

IsUpper(c) == c \in {"A", "B", "C", "D", "E", "F", "G", "H", "I", "J", "K", "L", "M",
                     "N", "O", "P", "Q", "R", "S", "T", "U", "V", "W", "X", "Y", "Z"}

\* fmt.Sprintf("%d", n) for n >= 0
RECURSIVE FormatInt(_)
FormatInt(n) == IF n < 10 THEN Digits[n + 1]
                ELSE FormatInt(n \div 10) \o Digits[(n % 10) + 1]

\* the value of a string of decimal digits
RECURSIVE DigitsValue(_)
DigitsValue(s) == IF Len(s) = 0 THEN 0
                  ELSE 10 * DigitsValue(SubSeq(s, 1, Len(s) - 1)) + DigitVal(CharAt(s, Len(s)))

AllDigits(s) == \A i \in 1..Len(s) : IsDigit(CharAt(s, i))

\* strings.Split(s, sep) for a separator of one character
RECURSIVE SplitFrom(_, _, _, _)
SplitFrom(s, sep, i, start) ==
    IF i > Len(s) THEN <<SubSeq(s, start, Len(s))>>
    ELSE IF CharAt(s, i) = sep
         THEN <<SubSeq(s, start, i - 1)>> \o SplitFrom(s, sep, i + 1, i + 1)
         ELSE SplitFrom(s, sep, i + 1, start)

Split(s, sep) == SplitFrom(s, sep, 1, 1)

Uppers == <<"A", "B", "C", "D", "E", "F", "G", "H", "I", "J", "K", "L", "M",
            "N", "O", "P", "Q", "R", "S", "T", "U", "V", "W", "X", "Y", "Z">>

Lowers == <<"a", "b", "c", "d", "e", "f", "g", "h", "i", "j", "k", "l", "m",
            "n", "o", "p", "q", "r", "s", "t", "u", "v", "w", "x", "y", "z">>

LowerChar(c) == IF IsUpper(c) THEN Lowers[CHOOSE k \in 1..26 : Uppers[k] = c] ELSE c

\* strings.ToLower
RECURSIVE ToLower(_)
ToLower(s) ==
    IF Len(s) = 0 THEN ""
    ELSE LowerChar(CharAt(s, 1)) \o ToLower(SubSeq(s, 2, Len(s)))

\* strings.Join(parts, sep)
RECURSIVE Join(_, _)
Join(parts, sep) ==
    IF Len(parts) = 0 THEN ""
    ELSE IF Len(parts) = 1 THEN parts[1]
    ELSE parts[1] \o sep \o Join(Tail(parts), sep)

\* a Go map[string][]string read at a key: a missing key reads as the nil slice
MapGet(m, k) == IF k \in DOMAIN m THEN m[k] ELSE <<>>

\* a Go map[string][]string after m[k] = v
MapPut(m, k, v) == [x \in (DOMAIN m) \cup {k} |-> IF x = k THEN v ELSE m[x]]

EmptyMap == [x \in {} |-> <<>>]

(***************************************************************************)
(* Node naming and the host-name-safety check.                             *)
(***************************************************************************)
defaultContainerNamePrefix == "k3d"

clusterNameMaxSize == 35

defaultServerCount == 1

NameChar(c) == IsDigit(c) \/ IsLower(c) \/ IsUpper(c) \/ c = "-"

\* the hostname rule: not empty, no leading or trailing dash, only letters,
\* digits and dashes
ValidateHostname(name) ==
    IF Len(name) = 0 THEN "empty"
    ELSE IF CharAt(name, 1) = "-" \/ CharAt(name, Len(name)) = "-" THEN "dash"
    ELSE IF \E i \in 1..Len(name) : ~NameChar(CharAt(name, i)) THEN "chars"
    ELSE "ok"

\* a check of the characters and the dashes alone
CheckClusterNameAnyLength(name) ==
    IF Len(name) = 0 THEN "panic"
    ELSE IF CharAt(name, 1) = "-" \/ CharAt(name, Len(name)) = "-" THEN "dash"
    ELSE IF \E i \in 1..Len(name) : ~NameChar(CharAt(name, i)) THEN "chars"
    ELSE "ok"

\* "ok", or the reason the cluster name is refused; on the empty name the
\* read of name[0] is out of range and the program aborts ("panic")
CheckClusterName(name) ==
    IF Len(name) > clusterNameMaxSize THEN "too long"
    ELSE IF Len(name) = 0 THEN "panic"
    ELSE IF CharAt(name, 1) = "-" \/ CharAt(name, Len(name)) = "-" THEN "dash"
    ELSE IF \E i \in 1..Len(name) : ~NameChar(CharAt(name, i)) THEN "chars"
    ELSE "ok"

\* a name without the ordinal
GetContainerNameOfRole(role, clusterName, postfix) ==
    defaultContainerNamePrefix \o "-" \o clusterName \o "-" \o role

GetContainerName(role, clusterName, postfix) ==
    IF postfix >= 0
    THEN defaultContainerNamePrefix \o "-" \o clusterName \o "-" \o role \o "-" \o FormatInt(postfix)
    ELSE defaultContainerNamePrefix \o "-" \o clusterName \o "-" \o role

GetAllContainerNames(clusterName, serverCount, workerCount) ==
    [i \in 1..serverCount |-> GetContainerName("server", clusterName, i - 1)]
    \o [i \in 1..workerCount |-> GetContainerName("worker", clusterName, i - 1)]

(***************************************************************************)
(* The port-publishing resolver.  A PublishedPorts value is a record       *)
(* [ExposedPorts, PortBindings]: a set of port keys such as "80/tcp" and a *)
(* map from port keys to sequences of bindings [HostIP, HostPort].         *)
(***************************************************************************)
nodeRuleGroupsMap(role) ==
    IF role = "worker" THEN <<"all", "workers">>
    ELSE IF role = "server" THEN <<"all", "server", "master">>
    ELSE <<>>

defaultNodes == "server"

\* strconv.ParseUint(s, 10, 16): [ok, value]
ParseUint16(s) ==
    IF Len(s) > 0 /\ AllDigits(s) /\ DigitsValue(s) <= 65535
    THEN [ok |-> TRUE, value |-> DigitsValue(s)]
    ELSE [ok |-> FALSE, value |-> 0]

\* nat.ParsePort with its error dropped, as Offset calls it: the empty string
\* and every string that is no port number read as 0
ParsePort(rawPort) ==
    IF Len(rawPort) = 0 THEN 0 ELSE ParseUint16(rawPort).value

\* the four fields of a dotted address: decimal, at most 255, and without a
\* leading zero
validIPParts(parts) ==
    /\ Len(parts) = 4
    /\ \A i \in 1..4 : /\ Len(parts[i]) \in 1..3
                       /\ AllDigits(parts[i])
                       /\ DigitsValue(parts[i]) <= 255
                       /\ Len(parts[i]) > 1 => CharAt(parts[i], 1) # "0"

\* net.ParseIP restricted to dotted IPv4 addresses
ValidIP(ip) == validIPParts(Split(ip, "."))

partsOf(parts, n) ==
    IF n = 1 THEN [ip |-> "", hostPort |-> "", containerPort |-> parts[1]]
    ELSE IF n = 2 THEN [ip |-> "", hostPort |-> parts[1], containerPort |-> parts[2]]
    ELSE IF n = 3 THEN [ip |-> parts[1], hostPort |-> parts[2], containerPort |-> parts[3]]
    ELSE [ip |-> Join(SubSeq(parts, 1, n - 2), ":"),
          hostPort |-> parts[n - 1], containerPort |-> parts[n]]

colonParts(parts) == partsOf(parts, Len(parts))

\* nat.splitParts: [ip, hostPort, containerPort]
splitParts(rawport) == colonParts(Split(rawport, ":"))

protoPortOf(rawPort, parts, rest) ==
    IF Len(rawPort) = 0 \/ Len(parts[1]) = 0 THEN [proto |-> "", port |-> ""]
    ELSE IF Len(parts) = 1 THEN [proto |-> "tcp", port |-> rawPort]
    ELSE IF Len(rest) = 0 THEN [proto |-> "tcp", port |-> parts[1]]
    ELSE [proto |-> rest, port |-> parts[1]]

\* the protocol is the second part; parts after it are not looked at
slashParts(rawPort, parts) ==
    protoPortOf(rawPort, parts, IF Len(parts) > 1 THEN parts[2] ELSE "")

\* nat.SplitProtoPort: [proto, port]
SplitProtoPort(rawPort) == slashParts(rawPort, Split(rawPort, "/"))

validateProto(proto) == proto \in {"tcp", "udp", "sctp"}

\* net.SplitHostPort(ip \o ":") for an ip that starts with "[": the first "]"
\* is the last character of ip and no other "[" follows; [ok, host]
bracketHost(ip) ==
    IF /\ CharAt(ip, Len(ip)) = "]"
       /\ \A i \in 2..(Len(ip) - 1) : CharAt(ip, i) \notin {"[", "]"}
    THEN [ok |-> TRUE, host |-> SubSeq(ip, 2, Len(ip) - 1)]
    ELSE [ok |-> FALSE, host |-> ""]

\* the host IP as nat.ParsePortSpec reads it: the brackets around it are
\* stripped; [ok, host]
rawIP(ip) ==
    IF ip # "" /\ CharAt(ip, 1) = "[" THEN bracketHost(ip)
    ELSE [ok |-> TRUE, host |-> ip]

\* the end of nat.ParsePortSpec: the checks, then the mapping [Port, Binding]
portMappings(ip, hostPort, port, proto, cport, hport) ==
    IF \/ ~rawIP(ip).ok
       \/ (rawIP(ip).host # "" /\ ~ValidIP(rawIP(ip).host))
       \/ port = ""
       \/ ~cport.ok
       \/ (Len(hostPort) > 0 /\ ~hport.ok)
       \/ ~validateProto(proto)
    THEN [ok |-> FALSE, mappings |-> <<>>]
    ELSE [ok |-> TRUE,
          mappings |-> << [Port |-> FormatInt(cport.value) \o "/" \o proto,
                           Binding |-> [HostIP |-> rawIP(ip).host,
                                        HostPort |-> IF Len(hostPort) > 0
                                                     THEN FormatInt(hport.value)
                                                     ELSE ""]] >>]

parseProtoPort(sp, pr) ==
    portMappings(sp.ip, sp.hostPort, pr.port, ToLower(pr.proto),
                 ParseUint16(pr.port), ParseUint16(sp.hostPort))

parseParts(sp) == parseProtoPort(sp, SplitProtoPort(sp.containerPort))

\* nat.ParsePortSpec for single ports (port ranges are not among the inputs
\* of this model): [ok, mappings], a mapping being [Port, Binding]
ParsePortSpec(rawPort) == parseParts(splitParts(rawPort))

EmptyPorts == [ExposedPorts |-> {}, PortBindings |-> EmptyMap]

\* a PublishedPorts value with one more mapping
addMapping(acc, m) ==
    [ExposedPorts |-> acc.ExposedPorts \cup {m.Port},
     PortBindings |-> MapPut(acc.PortBindings, m.Port,
                             Append(MapGet(acc.PortBindings, m.Port), m.Binding))]

\* nat.ParsePortSpecs over parsed rules: the first rule that did not parse ends it
RECURSIVE collectMappings(_, _, _)
collectMappings(parsed, i, acc) ==
    IF i > Len(parsed) THEN [ok |-> TRUE, ports |-> acc]
    ELSE IF ~parsed[i].ok THEN [ok |-> FALSE, ports |-> EmptyPorts]
    ELSE collectMappings(parsed, i + 1, addMapping(acc, parsed[i].mappings[1]))

\* CreatePublishedPorts: [ok, ports]
CreatePublishedPorts(specs) ==
    IF Len(specs) = 0 THEN [ok |-> TRUE, ports |-> EmptyPorts]
    ELSE collectMappings([i \in 1..Len(specs) |-> ParsePortSpec(specs[i])], 1, EmptyPorts)

\* one binding of Offset's result
offsetBinding(b, offset) ==
    [HostIP |-> b.HostIP, HostPort |-> FormatInt(ParsePort(b.HostPort) * offset)]

\* PublishedPorts.Offset: a new value, the host ports changed by 'offset'
Offset(p, offset) ==
    [ExposedPorts |-> p.ExposedPorts,
     PortBindings |-> [k \in DOMAIN p.PortBindings |->
        [i \in 1..Len(p.PortBindings[k]) |-> offsetBinding(p.PortBindings[k][i], offset)]]]

\* an AddPort that adds the binding without exposing the port
AddPortUnexposed(p, portSpec) ==
    IF ~ParsePortSpec(portSpec).ok THEN [ok |-> FALSE, ports |-> EmptyPorts]
    ELSE [ok |-> TRUE,
          ports |-> [addMapping(p, ParsePortSpec(portSpec).mappings[1])
                        EXCEPT !.ExposedPorts = p.ExposedPorts]]

\* PublishedPorts.AddPort: a new value with the mappings of portSpec added;
\* [ok, ports]
AddPort(p, portSpec) ==
    IF ~ParsePortSpec(portSpec).ok THEN [ok |-> FALSE, ports |-> EmptyPorts]
    ELSE [ok |-> TRUE, ports |-> addMapping(p, ParsePortSpec(portSpec).mappings[1])]

\* an extractNodes that keeps the first selector alone
nodesOfFirst(atSplit) == IF Len(atSplit) > 1 THEN <<atSplit[2]>> ELSE <<>>

nodesOf(atSplit) == IF Len(atSplit) > 1 THEN Tail(atSplit) ELSE <<>>

nodesOrDefault(nodes) == IF Len(nodes) = 0 THEN <<defaultNodes>> ELSE nodes

extractFrom(atSplit) == [nodes |-> nodesOrDefault(nodesOf(atSplit)), portSpec |-> atSplit[1]]

\* extractNodes: [nodes, portSpec]
extractNodes(spec) == extractFrom(Split(spec, "@"))

validSplit(atSplit) ==
    /\ ParsePortSpec(atSplit[1]).ok
    /\ \A i \in 2..Len(atSplit) : ValidateHostname(atSplit[i]) = "ok"

\* validatePortSpecs: TRUE when every rule has a port part that parses and
\* selectors that are host names
validatePortSpecs(specs) ==
    \A s \in 1..Len(specs) : validSplit(Split(specs[s], "@"))

\* an inner loop that records the rule under every selector, known or not
RECURSIVE mapNodesOfSpecAny(_, _, _, _, _)
mapNodesOfSpecAny(m, nodes, portSpec, possible, j) ==
    IF j > Len(nodes) THEN m
    ELSE mapNodesOfSpecAny(MapPut(m, nodes[j], Append(MapGet(m, nodes[j]), portSpec)),
                           nodes, portSpec, possible, j + 1)

\* the inner loop of mapNodesToPortSpecs: one rule's selectors
RECURSIVE mapNodesOfSpec(_, _, _, _, _)
mapNodesOfSpec(m, nodes, portSpec, possible, j) ==
    IF j > Len(nodes) THEN m
    ELSE IF \E k \in 1..Len(possible) : possible[k] = nodes[j]
         THEN mapNodesOfSpec(MapPut(m, nodes[j], Append(MapGet(m, nodes[j]), portSpec)),
                             nodes, portSpec, possible, j + 1)
         ELSE mapNodesOfSpec(m, nodes, portSpec, possible, j + 1)

mapExtracted(m, e, possible) == mapNodesOfSpec(m, e.nodes, e.portSpec, possible, 1)

RECURSIVE mapNodesFrom(_, _, _, _)
mapNodesFrom(m, specs, possible, i) ==
    IF i > Len(specs) THEN m
    ELSE mapNodesFrom(mapExtracted(m, extractNodes(specs[i]), possible),
                      specs, possible, i + 1)

\* mapNodesToPortSpecs: [ok, map]
mapNodesToPortSpecs(specs, createdNodes) ==
    IF ~validatePortSpecs(specs) THEN [ok |-> FALSE, map |-> EmptyMap]
    ELSE [ok |-> TRUE,
          map |-> mapNodesFrom(EmptyMap, specs,
                               <<"all", "workers", "server", "master">> \o createdNodes, 1)]

\* an append of all the rules of vs, held already or not
appendAll(portSpecs, vs, i) == portSpecs \o vs

\* appends to portSpecs the rules of vs that it does not hold yet
RECURSIVE appendNew(_, _, _)
appendNew(portSpecs, vs, i) ==
    IF i > Len(vs) THEN portSpecs
    ELSE IF \E k \in 1..Len(portSpecs) : portSpecs[k] = vs[i]
         THEN appendNew(portSpecs, vs, i + 1)
         ELSE appendNew(Append(portSpecs, vs[i]), vs, i + 1)

RECURSIVE mergeGroups(_, _, _, _)
mergeGroups(portSpecs, m, groups, g) ==
    IF g > Len(groups) THEN portSpecs
    ELSE mergeGroups(appendNew(portSpecs, MapGet(m, groups[g]), 1), m, groups, g + 1)

\* MergePortSpecs: the rules of a node, by its role groups, then by its name
MergePortSpecs(nodeToPortSpecMap, role, name) ==
    appendNew(mergeGroups(<<>>, nodeToPortSpecMap, nodeRuleGroupsMap(role), 1),
              MapGet(nodeToPortSpecMap, name), 1)

(***************************************************************************)
(* Inputs of the commands.                                                 *)
(***************************************************************************)
ValidNames == {"t1", "t2"}

InvalidNames == {"-t", "a_b"}

Names == ValidNames \cup InvalidNames

\* the --publish lists tried by the lifecycle commands: none, and a rule
\* whose host port is no number
PublishChoices == {<<>>, <<"abc:80@server">>}

\* the --wait values tried: -1 stands for the flag not given
WaitChoices == (-1)..MaxWait

\* the create commands tried: a cluster "t1" with any number of workers and
\* any wait, a cluster "t2" of a server alone beside it, either of them with
\* the malformed port rule, and the names that are no host names
CreateRequests ==
    [name : {"t1"}, workers : 0..MaxWorkers, publish : {<<>>}, wait : WaitChoices,
     offset : {0}]
    \cup [name : {"t2"}, workers : {0}, publish : {<<>>}, wait : {-1}, offset : {0}]
    \cup [name : ValidNames, workers : {0}, publish : PublishChoices \ {<<>>},
          wait : {-1}, offset : {0}]
    \cup [name : InvalidNames, workers : {0}, publish : {<<>>}, wait : {-1}, offset : {0}]

\* the clusters a delete, stop or start command names: all of them, or one
Targets == {[all |-> TRUE, name |-> ""]} \cup [all : {FALSE}, name : ValidNames]

\* The values below are computed once and then looked up: they are the
\* results of the resolver on the inputs above.
PortmapTable ==
    [n \in ValidNames, w \in 0..MaxWorkers, p \in PublishChoices |->
        mapNodesToPortSpecs(p, GetAllContainerNames(n, defaultServerCount, w))]

PortMaps == {PortmapTable[x].map : x \in DOMAIN PortmapTable}

(***************************************************************************)
(* The container engine.  A container is [name, labels, state, ports]; its *)
(* name is its identifier, since the engine keeps container names unique.  *)
(* A network is [name, labels]; the engine identifies networks by a random *)
(* ID, so that it can hold several networks of one name: 'networks' is a   *)
(* bag.                                                                    *)
(***************************************************************************)
apiPort == "6443"

createdStamp == "2006-01-02 15:04:05"

HasLabels(x, app, component, cluster) ==
    /\ x.labels.app = app
    /\ x.labels.component = component
    /\ x.labels.cluster = cluster

\* the bag B with k copies of e
SetCopies(B, e, k) ==
    [x \in (IF k = 0 THEN (DOMAIN B) \ {e} ELSE (DOMAIN B) \cup {e}) |->
        IF x = e THEN k ELSE B[x]]

\* the networks a NetworkList filtered by app=k3d and cluster=<clusterName> returns
ClusterNetworks(nets, clusterName) ==
    {n \in DOMAIN nets : n.labels.app = "k3d" /\ n.labels.cluster = clusterName}

RECURSIVE SumCopies(_, _)
SumCopies(nets, S) ==
    IF S = {} THEN 0
    ELSE LET n == CHOOSE x \in S : TRUE
         IN  nets[n] + SumCopies(nets, S \ {n})

\* how many networks carry the labels of cluster clusterName
NetworkCount(nets, clusterName) == SumCopies(nets, ClusterNetworks(nets, clusterName))

\* a createClusterNetwork that leaves the cluster label empty
createUntaggedNetwork(nets, clusterName) ==
    LET n == [name |-> clusterName, labels |-> [app |-> "k3d", cluster |-> ""]]
    IN  SetCopies(nets, n, CopiesIn(n, nets) + 1)

\* createClusterNetwork, the call succeeding: the network is named after the
\* cluster and labelled app and cluster
createClusterNetwork(nets, clusterName) ==
    LET n == [name |-> clusterName,
              labels |-> [app |-> "k3d", cluster |-> clusterName]]
    IN  SetCopies(nets, n, CopiesIn(n, nets) + 1)

\* one NetworkRemove of deleteClusterNetwork's loop: a network of the cluster
\* less, or, when none is left, the warning
networkRemove(nets, clusterName) ==
    IF ClusterNetworks(nets, clusterName) = {} THEN nets
    ELSE SetCopies(nets, CHOOSE n \in ClusterNetworks(nets, clusterName) : TRUE,
                   nets[CHOOSE n \in ClusterNetworks(nets, clusterName) : TRUE] - 1)

\* a deleteClusterNetwork that removes nothing
deleteNoNetwork(nets, clusterName, nfail) == nets

\* deleteClusterNetwork: every listed network is removed, but for nfail of
\* them, whose NetworkRemove fails with a warning
deleteClusterNetwork(nets, clusterName, nfail) ==
    LET listed == ClusterNetworks(nets, clusterName)
    IN  [x \in {n \in DOMAIN nets : n \notin listed \/ nfail > 0} |->
            IF x \in listed THEN (IF nfail < nets[x] THEN nfail ELSE nets[x]) ELSE nets[x]]

\* a getClusterStatus that returns the server's raw state whenever the
\* workers agree with it
getClusterStatusRaw(server, workers) ==
    IF \E w \in workers : w.state # server.state THEN "unhealthy"
    ELSE server.state

\* getClusterStatus
getClusterStatus(server, workers) ==
    IF \E w \in workers : w.state # server.state THEN "unhealthy"
    ELSE IF server.state = "exited" THEN "stopped"
    ELSE server.state

\* getClusters: a map from cluster names to clusters, one per server
\* container found
getClusters(cs, all, name) ==
    LET k3dServers == {c \in cs : c.labels.app = "k3d" /\ c.labels.component = "server"}
        picked == {c \in k3dServers : all \/ name = c.labels.cluster}
    IN  [clusterName \in {c.labels.cluster : c \in picked} |->
            LET server == CHOOSE c \in picked : c.labels.cluster = clusterName
                workers == {c \in cs : HasLabels(c, "k3d", "worker", clusterName)}
            IN  [name |-> clusterName,
                 status |-> getClusterStatus(server, workers),
                 server |-> server,
                 workers |-> workers]]

\* a ContainerCreate on an engine that accepts a container name twice
containerCreateAnyName(cs, config) ==
    [cs |-> cs \cup {[config EXCEPT !.state = "created"]}, err |-> "none"]

\* the engine's ContainerCreate, as startContainer calls it: refused when the
\* name is taken.  [cs, err]
containerCreate(cs, config) ==
    IF \E c \in cs : c.name = config.name THEN [cs |-> cs, err |-> "create"]
    ELSE [cs |-> cs \cup {[config EXCEPT !.state = "created"]}, err |-> "none"]

\* the engine's ContainerStart of the container just created, as
\* startContainer calls it: an error when the container is no longer there.
\* [cs, err]
startCreated(cs, id) ==
    IF \E c \in cs : c.name = id
    THEN [cs |-> {IF c.name = id THEN [c EXCEPT !.state = "running"] ELSE c : c \in cs},
          err |-> "none"]
    ELSE [cs |-> cs, err |-> "start"]

\* startContainer: pull, create, start.  f is the call that fails ("none",
\* "pull", "create", "start"); the create also fails when the name is taken.
\* [cs, err]
startContainer(cs, config, f) ==
    IF f = "pull" THEN [cs |-> cs, err |-> "pull"]
    ELSE IF f = "create" \/ \E c \in cs : c.name = config.name
         THEN [cs |-> cs, err |-> "create"]
    ELSE IF f = "start"
         THEN [cs |-> cs \cup {[config EXCEPT !.state = "created"]}, err |-> "start"]
    ELSE [cs |-> cs \cup {[config EXCEPT !.state = "running"]}, err |-> "none"]

\* the port rules createServer compiles: the server's merged rules and the
\* API port.  [ok, ports]
compileServerPorts(name, nodeToPortSpecMap) ==
    LET containerName == GetContainerName("server", name, -1)
        serverPorts == MergePortSpecs(nodeToPortSpecMap, "server", containerName)
        apiPortSpec == "0.0.0.0:" \o apiPort \o ":" \o apiPort \o "/tcp"
    IN  CreatePublishedPorts(Append(serverPorts, apiPortSpec))

ServerPortsTable ==
    [n \in ValidNames, m \in PortMaps |-> compileServerPorts(n, m)]

serverPublishedPorts(name, nodeToPortSpecMap) == ServerPortsTable[name, nodeToPortSpecMap]

\* the container createServer asks for
serverConfig(name, nodeToPortSpecMap) ==
    [name |-> GetContainerName("server", name, -1),
     labels |-> [app |-> "k3d", component |-> "server",
                 created |-> createdStamp, cluster |-> name],
     state |-> "",
     ports |-> serverPublishedPorts(name, nodeToPortSpecMap).ports.PortBindings]

\* createServer: [cs, err]; err "fatal" is the exit by log.Fatalf
createServer(cs, name, nodeToPortSpecMap, f) ==
    IF ~serverPublishedPorts(name, nodeToPortSpecMap).ok THEN [cs |-> cs, err |-> "fatal"]
    ELSE startContainer(cs, serverConfig(name, nodeToPortSpecMap), f)

\* the worker's compiled port rules, before any offset.  [ok, ports]
compileWorkerPorts(name, postfix, nodeToPortSpecMap) ==
    CreatePublishedPorts(
        MergePortSpecs(nodeToPortSpecMap, "worker", GetContainerName("worker", name, postfix)))

WorkerPortsTable ==
    [n \in ValidNames, i \in 0..MaxWorkers, m \in PortMaps |-> compileWorkerPorts(n, i, m)]

workerCompiledPorts(name, postfix, nodeToPortSpecMap) ==
    WorkerPortsTable[name, postfix, nodeToPortSpecMap]

\* a slip in createWorker: the offset is applied for every base, 0 included
offsetWantedAlways(portAutoOffset) == portAutoOffset >= 0

\* createWorker's test that host-port auto-spreading was requested
offsetWanted(portAutoOffset) == portAutoOffset > 0

\* the port bindings createWorker gives the worker
workerPublishedPorts(compiled, postfix, portAutoOffset) ==
    IF offsetWanted(portAutoOffset)
    THEN Offset(compiled, postfix + portAutoOffset)
    ELSE compiled

\* the container createWorker asks for
workerConfig(name, postfix, nodeToPortSpecMap, portAutoOffset) ==
    [name |-> GetContainerName("worker", name, postfix),
     labels |-> [app |-> "k3d", component |-> "worker",
                 created |-> createdStamp, cluster |-> name],
     state |-> "",
     ports |-> workerPublishedPorts(
                  workerCompiledPorts(name, postfix, nodeToPortSpecMap).ports,
                  postfix, portAutoOffset).PortBindings]

\* createWorker: [cs, err]
createWorker(cs, name, postfix, nodeToPortSpecMap, portAutoOffset, f) ==
    IF ~workerCompiledPorts(name, postfix, nodeToPortSpecMap).ok
    THEN [cs |-> cs, err |-> "ports"]
    ELSE startContainer(cs, workerConfig(name, postfix, nodeToPortSpecMap, portAutoOffset), f)

\* removeContainer, the call succeeding
removeContainer(cs, id) == {c \in cs : c.name # id}

(***************************************************************************)
(* The commands, as functions of the engine state E = [c, n, d]            *)
(* (containers, networks, directories) and of the engine calls that fail.  *)
(***************************************************************************)
\* the orders in which a range over a Go map may visit the keys S
Orders(S) ==
    {o \in [1..Cardinality(S) -> S] : \A i, j \in 1..Cardinality(S) : o[i] = o[j] => i = j}

\* the body of DeleteCluster's loop for one cluster.  failIds are the
\* containers whose removal fails, nfail the number of failing network
\* removals.  [E, err]
deleteOneCluster(E, cluster, failIds, nfail) ==
    LET kept == {c \in E.c : ~(c \in cluster.workers /\ c.name \notin failIds)}
        d == E.d \ {cluster.name}
    IN  IF cluster.server.name \in failIds
        THEN [E |-> [c |-> kept, n |-> E.n, d |-> d], err |-> "server"]
        ELSE [E |-> [c |-> removeContainer(kept, cluster.server.name),
                     n |-> deleteClusterNetwork(E.n, cluster.name, nfail),
                     d |-> d],
              err |-> "none"]

RECURSIVE deleteLoop(_, _, _, _, _, _)
deleteLoop(E, clusters, order, i, failIds, nfail) ==
    IF i > Len(order) THEN [E |-> E, err |-> "none"]
    ELSE LET r == deleteOneCluster(E, clusters[order[i]], failIds, nfail[order[i]])
         IN  IF r.err # "none" THEN r
             ELSE deleteLoop(r.E, clusters, order, i + 1, failIds, nfail)

\* DeleteCluster: [E, err]
DeleteClusterRun(E, all, name, order, failIds, nfail) ==
    deleteLoop(E, getClusters(E.c, all, name), order, 1, failIds, nfail)

\* a ContainerStop that leaves the container as it is
containerStopIgnored(c) == c

\* ContainerStop and ContainerStart, the call succeeding
containerStop(c) == IF c.state = "running" THEN [c EXCEPT !.state = "exited"] ELSE c

containerStart(c) == [c EXCEPT !.state = "running"]

\* a StopCluster on an engine that removes a worker when it is stopped
stopOneClusterRemoving(E, cluster, failIds) ==
    IF cluster.server.name \in failIds
    THEN [E |-> E, err |-> "server"]
    ELSE [E |-> [E EXCEPT !.c = {IF c.name = cluster.server.name
                                 THEN containerStop(c) ELSE c :
                                    c \in E.c \ cluster.workers}],
          err |-> "none"]

\* the body of StopCluster's loop for one cluster: the workers, then the server
stopOneCluster(E, cluster, failIds) ==
    LET afterWorkers == {IF c \in cluster.workers /\ c.name \notin failIds
                         THEN containerStop(c) ELSE c : c \in E.c}
    IN  IF cluster.server.name \in failIds
        THEN [E |-> [E EXCEPT !.c = afterWorkers], err |-> "server"]
        ELSE [E |-> [E EXCEPT !.c = {IF c.name = cluster.server.name
                                     THEN containerStop(c) ELSE c : c \in afterWorkers}],
              err |-> "none"]

RECURSIVE stopLoop(_, _, _, _, _)
stopLoop(E, clusters, order, i, failIds) ==
    IF i > Len(order) THEN [E |-> E, err |-> "none"]
    ELSE LET r == stopOneCluster(E, clusters[order[i]], failIds)
         IN  IF r.err # "none" THEN r
             ELSE stopLoop(r.E, clusters, order, i + 1, failIds)

\* StopCluster: [E, err]
StopClusterRun(E, all, name, order, failIds) ==
    stopLoop(E, getClusters(E.c, all, name), order, 1, failIds)

\* a loop body that starts the workers first and the server after them, so
\* that a server that does not start leaves the workers started
startWorkersFirst(E, cluster, failIds) ==
    LET afterWorkers == {IF c \in cluster.workers /\ c.name \notin failIds
                         THEN containerStart(c) ELSE c : c \in E.c}
    IN  IF cluster.server.name \in failIds
        THEN [E |-> [E EXCEPT !.c = afterWorkers], err |-> "server"]
        ELSE [E |-> [E EXCEPT !.c = {IF c.name = cluster.server.name
                                     THEN containerStart(c) ELSE c : c \in afterWorkers}],
              err |-> "none"]

\* the body of StartCluster's loop for one cluster: the server, then the workers
startOneCluster(E, cluster, failIds) ==
    IF cluster.server.name \in failIds
    THEN [E |-> E, err |-> "server"]
    ELSE [E |-> [E EXCEPT !.c = {IF (c.name = cluster.server.name \/ c \in cluster.workers)
                                     /\ c.name \notin failIds
                                 THEN containerStart(c) ELSE c : c \in E.c}],
          err |-> "none"]

RECURSIVE startLoop(_, _, _, _, _)
startLoop(E, clusters, order, i, failIds) ==
    IF i > Len(order) THEN [E |-> E, err |-> "none"]
    ELSE LET r == startOneCluster(E, clusters[order[i]], failIds)
         IN  IF r.err # "none" THEN r
             ELSE startLoop(r.E, clusters, order, i + 1, failIds)

\* StartCluster: [E, err]
StartClusterRun(E, all, name, order, failIds) ==
    startLoop(E, getClusters(E.c, all, name), order, 1, failIds)

\* the containers a command over 'clusters' makes engine calls on
TargetIds(clusters) ==
    UNION {{clusters[n].server.name} \cup {w.name : w \in clusters[n].workers} :
           n \in DOMAIN clusters}

RECURSIVE SumOver(_, _)
SumOver(f, S) ==
    IF S = {} THEN 0
    ELSE LET x == CHOOSE y \in S : TRUE IN f[x] + SumOver(f, S \ {x})

\* the ways the removal calls of a DeleteCluster over 'clusters' can fail
\* within a budget of failures: [ids, nfail]
DeleteFailures(E, clusters, budget) ==
    {ch \in [ids : SUBSET TargetIds(clusters),
             nfail : [DOMAIN clusters -> 0..MaxNetworks]] :
        /\ \A n \in DOMAIN clusters : ch.nfail[n] <= NetworkCount(E.n, n)
        /\ Cardinality(ch.ids) + SumOver(ch.nfail, DOMAIN clusters) <= budget}

\* the readiness loop's abort test: the wait is limited and the time now is
\* not after start + timeout
waitExpired(timeout, elapsed) == timeout # 0 /\ ~(elapsed > timeout)

(***************************************************************************)
(* The outcome records and the state update.                               *)
(***************************************************************************)
NoCtx == [name |-> "", workers |-> 0, portmap |-> EmptyMap, offset |-> 0,
          wait |-> 0, elapsed |-> 0]

NoIter == [iter |-> FALSE, wait |-> 0, elapsed |-> 0, fetched |-> FALSE]

\* the record kept in 'last': the command, its arguments, whether its
\* getClusters call found a cluster, its result ("ok", "running" while
\* CreateCluster is in its readiness loop, or the error), whether a removal
\* call failed in it, for a step of the readiness loop the iteration's
\* timeout, elapsed time and whether it fetched the log, and, for a
\* CreateCluster that returned success, the number of workers asked for
Outcome(op, name, all, found, result, rmFailed, it) ==
    [op |-> op, name |-> name, all |-> all, found |-> found, result |-> result,
     rmFailed |-> rmFailed, workers |-> 0,
     iter |-> it.iter, wait |-> it.wait, elapsed |-> it.elapsed, fetched |-> it.fetched]

Engine == [c |-> containers, n |-> networks, d |-> dirs]

\* the failures counted so far
Faults == [f |-> failures, rm |-> rmFailures]

Commit(E, p, ctx, fl, l) ==
    /\ containers' = E.c
    /\ networks' = E.n
    /\ dirs' = E.d
    /\ pc' = p
    /\ cc' = ctx
    /\ failures' = fl.f
    /\ rmFailures' = fl.rm
    /\ last' = l
    /\ UNCHANGED pp

(***************************************************************************)
(* CreateCluster.                                                          *)
(***************************************************************************)
\* a CreateCluster that returns its error without the cleanup
RollbackSkipped(E, name, fl, result, it) ==
    Commit(E, "idle", NoCtx, fl, Outcome("create", name, FALSE, FALSE, result, FALSE, it))

\* the deleteCluster closure of CreateCluster: DeleteCluster for the name,
\* its error logged and dropped; then CreateCluster returns 'result'
Rollback(E, name, fl, result, it) ==
    LET clusters == getClusters(E.c, FALSE, name)
    IN  \E order \in Orders(DOMAIN clusters) :
        \E ch \in DeleteFailures(E, clusters, MaxRmFailures - fl.rm) :
            LET r == DeleteClusterRun(E, FALSE, name, order, ch.ids, ch.nfail)
                cost == Cardinality(ch.ids) + SumOver(ch.nfail, DOMAIN clusters)
            IN  Commit(r.E, "idle", NoCtx, [fl EXCEPT !.rm = fl.rm + cost],
                       Outcome("create", name, FALSE, FALSE, result, cost > 0, it))

\* the containers after workers 0 .. k-1 were created and started
RECURSIVE workersCreated(_, _, _)
workersCreated(cs, ctx, k) ==
    IF k = 0 THEN cs
    ELSE createWorker(workersCreated(cs, ctx, k - 1), ctx.name, k - 1,
                      ctx.portmap, ctx.offset, "none").cs

\* CreateCluster from the end of the readiness loop: the cluster directory,
\* then the workers in order; the first worker that fails ends it with a
\* rollback
FinishCreate(E, ctx, fl, it) ==
    LET E1 == [E EXCEPT !.d = E.d \cup {ctx.name}]
        taken(i) == \E c \in E.c : c.name = GetContainerName("worker", ctx.name, i)
    IN  \E k \in 0..ctx.workers :
            /\ \A i \in 0..(k - 1) : ~taken(i)
            /\ LET cs == workersCreated(E1.c, ctx, k)
               IN  IF k = ctx.workers
                   THEN Commit([E1 EXCEPT !.c = cs], "idle", NoCtx, fl,
                               [Outcome("create", ctx.name, FALSE, FALSE, "ok", FALSE, it)
                                   EXCEPT !.workers = ctx.workers])
                   ELSE \E f \in {"none", "pull", "create", "start"} :
                        /\ (f = "none") = taken(k)
                        /\ f # "none" => fl.f < MaxFailures
                        /\ LET r == createWorker(cs, ctx.name, k, ctx.portmap, ctx.offset, f)
                               fl2 == IF f = "none" THEN fl ELSE [fl EXCEPT !.f = fl.f + 1]
                           IN  Rollback([E1 EXCEPT !.c = r.cs], ctx.name, fl2, "worker", it)

\* CreateCluster from the creation of the server on
CreateServerOn(E1, ctx, fl, r) ==
    IF r.err = "fatal"
    THEN Commit([E1 EXCEPT !.c = r.cs], "idle", NoCtx, fl,
                Outcome("create", ctx.name, FALSE, FALSE, "portspec", FALSE, NoIter))
    ELSE IF r.err # "none"
    THEN Rollback([E1 EXCEPT !.c = r.cs], ctx.name, fl, "server", NoIter)
    ELSE IF ctx.wait >= 0
    THEN Commit([E1 EXCEPT !.c = r.cs], "waiting", ctx, fl,
                Outcome("create", ctx.name, FALSE, FALSE, "running", FALSE, NoIter))
    ELSE FinishCreate([E1 EXCEPT !.c = r.cs], ctx, fl, NoIter)

\* CreateCluster from the resolution of the port rules on, the network created
CreateOnNetwork(E1, req, portmap) ==
    IF ~portmap.ok
    THEN \* log.Fatal: the process exits
         Commit(E1, "idle", NoCtx, Faults,
                Outcome("create", req.name, FALSE, FALSE, "portspec", FALSE, NoIter))
    ELSE \E f \in {"none", "pull", "create", "start"} :
            /\ f # "none" => failures < MaxFailures
            /\ CreateServerOn(E1,
                              [name |-> req.name, workers |-> req.workers,
                               portmap |-> portmap.map, offset |-> req.offset,
                               wait |-> req.wait, elapsed |-> 0],
                              IF f = "none" THEN Faults
                              ELSE [Faults EXCEPT !.f = failures + 1],
                              createServer(E1.c, req.name, portmap.map, f))

\* a pre-check that lists the running containers alone
nameInUseRunning(cs, name) ==
    DOMAIN getClusters({c \in cs : c.state = "running"}, FALSE, name) # {}

\* CreateCluster's pre-check: a cluster of that name exists
nameInUse(cs, name) == DOMAIN getClusters(cs, FALSE, name) # {}

\* CreateCluster's exit with an error before anything was created
CreateRefused(name, result, fl) ==
    Commit(Engine, "idle", NoCtx, fl,
           Outcome("create", name, FALSE, result = "exists", result, FALSE, NoIter))

CreateCluster ==
    /\ pc = "idle"
    /\ \E req \in CreateRequests :
       IF CheckClusterName(req.name) # "ok" THEN CreateRefused(req.name, "name", Faults)
       ELSE IF nameInUse(containers, req.name)
            THEN CreateRefused(req.name, "exists", Faults)
       ELSE
       \* createClusterNetwork: the engine may refuse a name it already holds
       \/ /\ failures < MaxFailures
          /\ CreateRefused(req.name, "network", [Faults EXCEPT !.f = failures + 1])
       \/ /\ NetworkCount(networks, req.name) > 0
          /\ CreateRefused(req.name, "network", Faults)
       \/ /\ NetworkCount(networks, req.name) < MaxNetworks
          /\ CreateOnNetwork([Engine EXCEPT !.n = createClusterNetwork(networks, req.name)],
                             req, PortmapTable[req.name, req.workers, req.publish])

\* one iteration of the readiness loop of CreateCluster, and, when the loop
\* ends, the rest of CreateCluster
WaitLoop ==
    /\ pc = "waiting"
    /\ LET it(fetched) == [iter |-> TRUE, wait |-> cc.wait, elapsed |-> cc.elapsed,
                           fetched |-> fetched]
       IN  IF waitExpired(cc.wait, cc.elapsed)
           THEN Rollback(Engine, cc.name, Faults, "timeout", it(FALSE))
           ELSE \/ \* ContainerLogs fails: CreateCluster ends there
                   /\ failures < MaxFailures
                   /\ Commit(Engine, "idle", NoCtx, [Faults EXCEPT !.f = failures + 1],
                             Outcome("create", cc.name, FALSE, FALSE, "logs", FALSE, it(TRUE)))
                \/ \* the log holds the readiness line
                   FinishCreate(Engine, cc, Faults, it(TRUE))
                \/ \* it does not yet: sleep for a second
                   /\ cc.elapsed < MaxElapsed
                   /\ Commit(Engine, "waiting", [cc EXCEPT !.elapsed = cc.elapsed + 1], Faults,
                             Outcome("create", cc.name, FALSE, FALSE, "running", FALSE, it(TRUE)))

(***************************************************************************)
(* DeleteCluster, StopCluster, StartCluster.                               *)
(***************************************************************************)
DeleteCluster ==
    /\ pc = "idle"
    /\ \E target \in Targets :
       LET all == target.all
           name == target.name
           clusters == getClusters(containers, all, name)
       IN  \E order \in Orders(DOMAIN clusters) :
           \E ch \in DeleteFailures(Engine, clusters, MaxRmFailures - rmFailures) :
               LET r == DeleteClusterRun(Engine, all, name, order, ch.ids, ch.nfail)
                   cost == Cardinality(ch.ids) + SumOver(ch.nfail, DOMAIN clusters)
               IN  Commit(r.E, "idle", NoCtx, [Faults EXCEPT !.rm = rmFailures + cost],
                          Outcome("delete", name, all, DOMAIN clusters # {},
                                  IF r.err = "none" THEN "ok" ELSE r.err,
                                  cost > 0, NoIter))

StopCluster ==
    /\ pc = "idle"
    /\ \E target \in Targets :
       LET all == target.all
           name == target.name
           clusters == getClusters(containers, all, name)
       IN  \E order \in Orders(DOMAIN clusters) :
           \E failIds \in SUBSET TargetIds(clusters) :
               /\ failures + Cardinality(failIds) <= MaxFailures
               /\ LET r == StopClusterRun(Engine, all, name, order, failIds)
                  IN  Commit(r.E, "idle", NoCtx,
                             [Faults EXCEPT !.f = failures + Cardinality(failIds)],
                             Outcome("stop", name, all, DOMAIN clusters # {},
                                     IF r.err = "none" THEN "ok" ELSE r.err,
                                     failIds # {}, NoIter))

StartCluster ==
    /\ pc = "idle"
    /\ \E target \in Targets :
       LET all == target.all
           name == target.name
           clusters == getClusters(containers, all, name)
       IN  \E order \in Orders(DOMAIN clusters) :
           \E failIds \in SUBSET TargetIds(clusters) :
               /\ failures + Cardinality(failIds) <= MaxFailures
               /\ LET r == StartClusterRun(Engine, all, name, order, failIds)
                  IN  Commit(r.E, "idle", NoCtx,
                             [Faults EXCEPT !.f = failures + Cardinality(failIds)],
                             Outcome("start", name, all, DOMAIN clusters # {},
                                     IF r.err = "none" THEN "ok" ELSE r.err,
                                     failIds # {}, NoIter))

\* 'pp' before any call of the resolver: the rules given, the call made
\* ("none", "compile", "offset", "worker", "merge", "extract"), the set the
\* call started from, the offsets applied to it in order, the resulting set,
\* for createWorker the auto-offset base b and the worker's ordinal i, for
\* MergePortSpecs the map, role and name given and the rules returned, and
\* for extractNodes the rule given and the selectors and port portion
\* returned, and for mapNodesToPortSpecs whether it returned no error (ok) and
\* the map, and for the naming of a cluster's nodes the cluster, the
\* container names of the server and of the workers in ordinal order, and
\* the names handed to mapNodesToPortSpecs as literal selectors
NoResolve ==
    [op |-> "none", specs |-> <<>>, base |-> EmptyPorts, steps |-> <<>>,
     set |-> EmptyPorts, b |-> 0, i |-> 0,
     map |-> EmptyMap, role |-> "", node |-> "", merged |-> <<>>,
     rule |-> "", nodes |-> <<>>, portSpec |-> "", ok |-> TRUE,
     cluster |-> "", names |-> <<>>, selectors |-> <<>>, added |-> 0]

Init ==
    /\ containers = {}
    /\ networks = EmptyBag
    /\ dirs = {}
    /\ pc = "idle"
    /\ cc = NoCtx
    /\ failures = 0
    /\ rmFailures = 0
    /\ last = Outcome("none", "", FALSE, FALSE, "ok", FALSE, NoIter)
    /\ pp = NoResolve

Next == CreateCluster \/ WaitLoop \/ DeleteCluster \/ StopCluster \/ StartCluster

Spec == Init /\ [][Next]_vars

\* the lifecycle with a CreateCluster that goes on: time advances and the
\* engine calls return, so an iteration of the readiness loop that can be
\* taken is taken
LiveSpec == Spec /\ WF_vars(WaitLoop)

(***************************************************************************)
(* The port resolver alone: the rules are drawn at the start, and each     *)
(* step is one call of the resolver's functions on them.                   *)
(***************************************************************************)
\* the --publish lists given to the resolver
RuleLists ==
    {<<>>,
     <<"8080:80@workers">>,
     <<"80@workers">>,
     <<"8080:80">>,
     <<"127.0.0.1:8080:80@all">>,
     <<"[127.0.0.1]:8080:80@all">>,
     <<"8080:80/udp@workers", "9090:90@k3d-t1-worker-1">>,
     <<"8080:80@workers", "8081:80@workers">>,
     <<"443:443@server@workers">>,
     <<"8080:80@all@workers@k3d-t1-worker-0", "9090:90@master", "8080:80@workers">>,
     <<"7070:70@k3d-t1-server@server", "6060:60@k3d-t1-worker-1@all", "7070:70@master">>,
     <<"8080:80@", "">>,
     <<"8080:80@nosuch", "9090:90@workers@k3d-t2-server", "7070:70@k3d-t1-worker-9">>,
     <<"7070:70@k3d-t1-server">>,
     <<"7070:70@k3d-t1-server-0">>}

\* the port portions of the rules
portSpecsOf(specs) == [k \in 1..Len(specs) |-> extractNodes(specs[k]).portSpec]

\* the cluster the resolver works for: "t1" with MaxWorkers workers
resolverCluster == "t1"

resolverPortmap(specs) ==
    mapNodesToPortSpecs(specs,
                        GetAllContainerNames(resolverCluster, defaultServerCount, MaxWorkers))

PortsUnchanged == UNCHANGED <<containers, networks, dirs, pc, cc, failures, rmFailures, last>>

\* CreatePublishedPorts on the port portions of the rules
Compile ==
    /\ pp.op = "none"
    /\ CreatePublishedPorts(portSpecsOf(pp.specs)).ok
    /\ pp' = [pp EXCEPT !.op = "compile",
                        !.base = CreatePublishedPorts(portSpecsOf(pp.specs)).ports,
                        !.set = CreatePublishedPorts(portSpecsOf(pp.specs)).ports]
    /\ PortsUnchanged

\* the port rules given to AddPort
AddedSpecs == {"53/udp", "0.0.0.0:9090:80", "abc:80"}

\* AddPort on the set at hand, which becomes the base of the offsets to come
AddPortStep ==
    /\ pp.op \in {"compile", "offset", "addport"}
    /\ pp.added < MaxAdded
    /\ \E portSpec \in AddedSpecs :
          /\ AddPort(pp.set, portSpec).ok
          /\ pp' = [pp EXCEPT !.op = "addport",
                              !.added = @ + 1,
                              !.steps = <<>>,
                              !.base = AddPort(pp.set, portSpec).ports,
                              !.set = AddPort(pp.set, portSpec).ports]
    /\ PortsUnchanged

\* Offset on the set at hand, at most twice in a row, and once after an
\* AddPort
ApplyOffset ==
    /\ pp.op \in {"compile", "offset", "addport"}
    /\ Len(pp.steps) < (IF pp.added = 0 THEN 2 ELSE 1)
    /\ \E n \in 0..MaxOffset :
          pp' = [pp EXCEPT !.op = "offset",
                           !.steps = Append(pp.steps, n),
                           !.set = Offset(pp.set, n)]
    /\ PortsUnchanged

\* the port part of createWorker for worker i of the cluster, created with
\* the rules and the auto-offset base b
WorkerPorts ==
    /\ pp.op = "none"
    /\ resolverPortmap(pp.specs).ok
    /\ \E i \in 0..(MaxWorkers - 1), b \in 0..MaxOffset :
          /\ compileWorkerPorts(resolverCluster, i, resolverPortmap(pp.specs).map).ok
          /\ pp' = [pp EXCEPT
                      !.op = "worker",
                      !.base = compileWorkerPorts(resolverCluster, i,
                                                  resolverPortmap(pp.specs).map).ports,
                      !.set = workerPublishedPorts(
                                 compileWorkerPorts(resolverCluster, i,
                                                    resolverPortmap(pp.specs).map).ports,
                                 i, b),
                      !.b = b,
                      !.i = i]
    /\ PortsUnchanged

\* the nodes of the resolver's cluster, as createServer and createWorker name
\* them to MergePortSpecs: [role, name]
resolverNodes ==
    {[role |-> "server", name |-> GetContainerName("server", resolverCluster, -1)]}
    \cup {[role |-> "worker", name |-> GetContainerName("worker", resolverCluster, i)] :
             i \in 0..(MaxWorkers - 1)}

\* MergePortSpecs for one node of the cluster, on the map made of the rules
Merge ==
    /\ pp.op = "none"
    /\ resolverPortmap(pp.specs).ok
    /\ \E n \in resolverNodes :
          pp' = [pp EXCEPT !.op = "merge",
                           !.map = resolverPortmap(pp.specs).map,
                           !.role = n.role,
                           !.node = n.name,
                           !.merged = MergePortSpecs(resolverPortmap(pp.specs).map,
                                                     n.role, n.name)]
    /\ PortsUnchanged

\* mapNodesToPortSpecs on the rules, with the node names of the cluster
MapNodes ==
    /\ pp.op = "none"
    /\ pp' = [pp EXCEPT !.op = "map",
                        !.ok = resolverPortmap(pp.specs).ok,
                        !.map = resolverPortmap(pp.specs).map]
    /\ PortsUnchanged

\* the container names createServer and createWorker give the nodes of a
\* cluster with workerCount workers: the server's, then the workers' by ordinal
containerNames(clusterName, workerCount) ==
    <<GetContainerName("server", clusterName, -1)>>
    \o [i \in 1..workerCount |-> GetContainerName("worker", clusterName, i - 1)]

\* the worker counts whose names are generated
NamedCounts == (0..MaxWorkers) \cup {MaxNamed}

\* the naming of the nodes of a cluster in CreateCluster: the names the
\* containers get and the names given to the resolver
NameNodes ==
    /\ pp.op = "none"
    /\ \E c \in ValidNames, n \in NamedCounts :
          pp' = [pp EXCEPT !.op = "name",
                           !.cluster = c,
                           !.names = containerNames(c, n),
                           !.selectors = GetAllContainerNames(c, defaultServerCount, n)]
    /\ PortsUnchanged

\* extractNodes on one of the rules
Extract ==
    /\ pp.op = "none"
    /\ \E k \in 1..Len(pp.specs) :
          pp' = [pp EXCEPT !.op = "extract",
                           !.rule = pp.specs[k],
                           !.nodes = extractNodes(pp.specs[k]).nodes,
                           !.portSpec = extractNodes(pp.specs[k]).portSpec]
    /\ PortsUnchanged

PortsInit ==
    /\ containers = {}
    /\ networks = EmptyBag
    /\ dirs = {}
    /\ pc = "idle"
    /\ cc = NoCtx
    /\ failures = 0
    /\ rmFailures = 0
    /\ last = Outcome("none", "", FALSE, FALSE, "ok", FALSE, NoIter)
    /\ pp \in {[NoResolve EXCEPT !.specs = specs] : specs \in RuleLists}

PortsNext ==
    Compile \/ ApplyOffset \/ WorkerPorts \/ Merge \/ Extract \/ MapNodes \/ NameNodes
    \/ AddPortStep

PortsSpec == PortsInit /\ [][PortsNext]_vars

(***************************************************************************)
(* getClusterStatus alone: the raw states of a server and of its workers   *)
(* are drawn at the start, and the one step is the call.                   *)
(***************************************************************************)
\* the raw states the engine reports for a container
ContainerStates == {"created", "running", "paused", "exited", "dead"}

\* the lists of up to MaxWorkers raw worker states
WorkerStateLists == UNION {[1..k -> ContainerStates] : k \in 0..MaxWorkers}

\* the containers getClusterStatus is called with
statusServer(state) ==
    [name |-> GetContainerName("server", resolverCluster, -1), state |-> state]

statusWorkers(states) ==
    {[name |-> GetContainerName("worker", resolverCluster, i - 1), state |-> states[i]] :
        i \in 1..Len(states)}

\* 'pp' before the call: the server's raw state and the workers' raw states
NoStatus == [op |-> "none", server |-> "", workers |-> <<>>, status |-> ""]

Classify ==
    /\ pp.op = "none"
    /\ pp' = [pp EXCEPT !.op = "status",
                        !.status = getClusterStatus(statusServer(pp.server),
                                                    statusWorkers(pp.workers))]
    /\ PortsUnchanged

StatusInit ==
    /\ containers = {}
    /\ networks = EmptyBag
    /\ dirs = {}
    /\ pc = "idle"
    /\ cc = NoCtx
    /\ failures = 0
    /\ rmFailures = 0
    /\ last = Outcome("none", "", FALSE, FALSE, "ok", FALSE, NoIter)
    /\ pp \in {[NoStatus EXCEPT !.server = s, !.workers = ws] :
                 s \in ContainerStates, ws \in WorkerStateLists}

StatusNext == Classify

StatusSpec == StatusInit /\ [][StatusNext]_vars

(***************************************************************************)
(* getKubeConfig alone.  'pp' holds the local credentials files (a map     *)
(* from cluster names to contents), the version of the file inside the     *)
(* server container, the number of copies made out of the container, and   *)
(* the last call with what it returned.                                    *)
(***************************************************************************)
\* getClusterDir, getClusterKubeConfigPath
getClusterDir(name) == "$HOME/.config/k3d/" \o name

getClusterKubeConfigPath(cluster) == getClusterDir(cluster) \o "/kubeconfig.yaml"

\* the archive CopyFromContainer returns for the file: a header block and
\* the content, and what createKubeConfigFile writes of it
archiveOf(content) == [header |-> "tar", body |-> content]

writtenOf(readBytes) == readBytes.body

\* an os.Stat that never finds the file
kubeConfigNeverExists(files, cluster) == FALSE

\* os.Stat of the local file: it exists
kubeConfigExists(files, cluster) == cluster \in DOMAIN files

\* createKubeConfigFile: the running server is listed by label, the file is
\* copied out (copyFails: the engine call fails) and written into the
\* cluster directory.  [files, copies, err]
createKubeConfigFile(cs, ds, k, cluster, copyFails) ==
    IF {c \in cs : HasLabels(c, "k3d", "server", cluster) /\ c.state = "running"} = {}
    THEN [files |-> k.files, copies |-> k.copies, err |-> "noserver"]
    ELSE IF copyFails
    THEN [files |-> k.files, copies |-> k.copies, err |-> "copy"]
    ELSE IF cluster \notin ds
    THEN [files |-> k.files, copies |-> k.copies + 1, err |-> "create"]
    ELSE [files |-> [x \in DOMAIN k.files \cup {cluster} |->
                        IF x = cluster THEN writtenOf(archiveOf(k.remote)) ELSE k.files[x]],
          copies |-> k.copies + 1, err |-> "none"]

\* getKubeConfig: [files, copies, path, err]
getKubeConfig(cs, ds, k, cluster, copyFails) ==
    IF Cardinality(DOMAIN getClusters(cs, FALSE, cluster)) # 1
    THEN [files |-> k.files, copies |-> k.copies, path |-> "", err |-> "notexist"]
    ELSE IF ~kubeConfigExists(k.files, cluster)
    THEN LET r == createKubeConfigFile(cs, ds, k, cluster, copyFails)
         IN  [files |-> r.files, copies |-> r.copies,
              path |-> IF r.err = "none" THEN getClusterKubeConfigPath(cluster) ELSE "",
              err |-> r.err]
    ELSE [files |-> k.files, copies |-> k.copies, path |-> "", err |-> "none"]

\* 'pp' before any call
NoKube ==
    [op |-> "none", cluster |-> "", files |-> EmptyMap, remote |-> 1, copies |-> 0,
     path |-> "", err |-> "none"]

\* the GetKubeConfig command
GetKubeConfig ==
    /\ pp.copies < MaxCopies
    /\ \E cluster \in ValidNames, copyFails \in BOOLEAN :
          LET r == getKubeConfig(containers, dirs, pp, cluster, copyFails)
          IN  pp' = [pp EXCEPT !.op = "kube", !.cluster = cluster, !.files = r.files,
                               !.copies = r.copies, !.path = r.path, !.err = r.err]
    /\ PortsUnchanged

\* the user deletes a local credentials file
RemoveKubeConfig ==
    /\ \E cluster \in DOMAIN pp.files :
          pp' = [pp EXCEPT !.op = "remove", !.cluster = cluster,
                           !.files = [x \in DOMAIN pp.files \ {cluster} |-> pp.files[x]],
                           !.path = "", !.err = "none"]
    /\ PortsUnchanged

\* the server writes its credentials file anew
RewriteRemote ==
    /\ pp.remote < MaxVersion
    /\ pp' = [pp EXCEPT !.op = "rewrite", !.cluster = "", !.remote = pp.remote + 1,
                        !.path = "", !.err = "none"]
    /\ PortsUnchanged

\* the engine states getKubeConfig is called in: no cluster, cluster t1 with
\* its server running, cluster t1 stopped, clusters t1 and t2 running
KubeEngines ==
    LET server == createServer({}, "t1", EmptyMap, "none").cs
    IN  {{}, server, {containerStop(c) : c \in server},
         createServer(server, "t2", EmptyMap, "none").cs}

KubeInit ==
    /\ containers \in KubeEngines
    /\ networks = EmptyBag
    /\ dirs \in SUBSET ValidNames
    /\ pc = "idle"
    /\ cc = NoCtx
    /\ failures = 0
    /\ rmFailures = 0
    /\ last = Outcome("none", "", FALSE, FALSE, "ok", FALSE, NoIter)
    /\ pp = NoKube

KubeNext == GetKubeConfig \/ RemoveKubeConfig \/ RewriteRemote

KubeSpec == KubeInit /\ [][KubeNext]_vars

(***************************************************************************)
(* Two CreateCluster calls for one name that overlap.  Each call is a      *)
(* process that takes its engine calls and file operations one at a time:  *)
(* the pre-check, NetworkCreate, for the server and then for each worker   *)
(* ImagePull, ContainerCreate and ContainerStart, the creation of the      *)
(* directory after the server; and on an error the cleanup, call by call:  *)
(* the list of the servers, the list of the workers, the removal of each   *)
(* worker listed, of the directory, of the server, the list of the         *)
(* networks and the removal of each network listed.  'pp' holds for each   *)
(* process its position, whether it passed the pre-check, the number of    *)
(* workers asked for, the node it is creating (-1 the server, else the     *)
(* worker's ordinal), its result, the workers and the number of networks   *)
(* its cleanup has listed and not yet removed; and whether two networks of *)
(* the name were ever there.                                               *)
(***************************************************************************)
Callers == {1, 2}

raceName == "t1"

\* the worker counts the two callers ask for
RaceWorkers == 0..1

Caller(workers) ==
    [pc |-> "check", passed |-> FALSE, workers |-> workers, k |-> -1, result |-> "",
     ws |-> {}, nets |-> 0]

\* process p moves to the state q, the engine to E, the failures to fl
RaceStep(p, q, E, fl) ==
    /\ containers' = E.c
    /\ networks' = E.n
    /\ dirs' = E.d
    /\ failures' = fl
    /\ pp' = [proc |-> [pp.proc EXCEPT ![p] = q],
              twoNetworks |-> pp.twoNetworks \/ NetworkCount(E.n, raceName) >= 2]
    /\ UNCHANGED <<pc, cc, rmFailures, last>>

\* process p ends with the result
RaceEnd(p, result, E, fl) ==
    RaceStep(p, [pp.proc[p] EXCEPT !.pc = "done", !.result = result], E, fl)

\* createServer or createWorker of process p returned an error: the cleanup
\* begins, and the error will be returned
RaceFail(p, E, fl) ==
    RaceStep(p, [pp.proc[p] EXCEPT !.pc = "list",
                                   !.result = IF pp.proc[p].k = -1 THEN "server" ELSE "worker"],
             E, fl)

\* the container process p is creating
raceConfig(k) ==
    IF k = -1 THEN serverConfig(raceName, EmptyMap)
    ELSE workerConfig(raceName, k, EmptyMap, 0)

\* the head of the worker loop, k workers created: the next worker, or the
\* return
loopHead(k, workers) == IF k = workers THEN "return" ELSE "pull"

\* the position after node k was started: the directory after the server,
\* the head of the loop after a worker
afterNode(k, workers) == IF k = -1 THEN "dir" ELSE loopHead(k + 1, workers)

\* the pre-check of CreateCluster
RaceCheck ==
    \E p \in Callers :
        /\ pp.proc[p].pc = "check"
        /\ IF nameInUse(containers, raceName)
           THEN RaceEnd(p, "exists", Engine, failures)
           ELSE RaceStep(p, [pp.proc[p] EXCEPT !.pc = "network", !.passed = TRUE],
                         Engine, failures)

\* createClusterNetwork: the engine may refuse a name it already holds
RaceNetwork ==
    \E p \in Callers :
        /\ pp.proc[p].pc = "network"
        /\ \/ /\ NetworkCount(networks, raceName) > 0
              /\ RaceEnd(p, "network", Engine, failures)
           \/ /\ NetworkCount(networks, raceName) < MaxNetworks
              /\ RaceStep(p, [pp.proc[p] EXCEPT !.pc = "pull"],
                          [Engine EXCEPT !.n = createClusterNetwork(networks, raceName)],
                          failures)

\* startContainer: ImagePull
RacePull ==
    \E p \in Callers :
        /\ pp.proc[p].pc = "pull"
        /\ \/ /\ failures < MaxFailures
              /\ RaceFail(p, Engine, failures + 1)
           \/ RaceStep(p, [pp.proc[p] EXCEPT !.pc = "create"], Engine, failures)

\* what follows ContainerCreate, r being what it returned
RaceCreated(p, r) ==
    IF r.err # "none" THEN RaceFail(p, Engine, failures)
    ELSE RaceStep(p, [pp.proc[p] EXCEPT !.pc = "start"], [Engine EXCEPT !.c = r.cs], failures)

\* startContainer: ContainerCreate
RaceCreate ==
    \E p \in Callers :
        /\ pp.proc[p].pc = "create"
        /\ \/ /\ failures < MaxFailures
              /\ RaceFail(p, Engine, failures + 1)
           \/ RaceCreated(p, containerCreate(containers, raceConfig(pp.proc[p].k)))

\* what follows ContainerStart, r being what it returned
RaceStarted(p, r) ==
    IF r.err # "none" THEN RaceFail(p, Engine, failures)
    ELSE RaceStep(p, [pp.proc[p] EXCEPT !.pc = afterNode(pp.proc[p].k, pp.proc[p].workers),
                                        !.k = IF @ = -1 THEN -1 ELSE @ + 1],
                  [Engine EXCEPT !.c = r.cs], failures)

\* startContainer: ContainerStart
RaceStart ==
    \E p \in Callers :
        /\ pp.proc[p].pc = "start"
        /\ \/ /\ failures < MaxFailures
              /\ RaceFail(p, Engine, failures + 1)
           \/ RaceStarted(p, startCreated(containers, raceConfig(pp.proc[p].k).name))

\* createClusterDir, after the server
RaceDir ==
    \E p \in Callers :
        /\ pp.proc[p].pc = "dir"
        /\ RaceStep(p, [pp.proc[p] EXCEPT !.pc = loopHead(0, pp.proc[p].workers),
                                          !.k = 0],
                    [Engine EXCEPT !.d = dirs \cup {raceName}], failures)

\* CreateCluster returns success
RaceReturn ==
    \E p \in Callers :
        /\ pp.proc[p].pc = "return"
        /\ RaceEnd(p, "ok", Engine, failures)

\* the cleanup: getClusters lists the servers; without a server of the name
\* DeleteCluster has nothing to do
RaceListServers ==
    \E p \in Callers :
        /\ pp.proc[p].pc = "list"
        /\ RaceStep(p, [pp.proc[p] EXCEPT !.pc = IF nameInUse(containers, raceName)
                                                 THEN "listworkers" ELSE "done"],
                    Engine, failures)

\* the cleanup: getClusters lists the workers of the server found
RaceListWorkers ==
    \E p \in Callers :
        /\ pp.proc[p].pc = "listworkers"
        /\ RaceStep(p, [pp.proc[p] EXCEPT
                          !.ws = {c.name : c \in {x \in containers :
                                                    HasLabels(x, "k3d", "worker", raceName)}},
                          !.pc = IF \E x \in containers : HasLabels(x, "k3d", "worker", raceName)
                                 THEN "rmworker" ELSE "rmdir"],
                    Engine, failures)

\* the cleanup: the removal of one worker listed; its failure is logged
RaceRemoveWorker ==
    \E p \in Callers :
        /\ pp.proc[p].pc = "rmworker"
        /\ \E w \in pp.proc[p].ws :
              RaceStep(p, [pp.proc[p] EXCEPT !.ws = @ \ {w},
                                             !.pc = IF pp.proc[p].ws = {w}
                                                    THEN "rmdir" ELSE "rmworker"],
                       [Engine EXCEPT !.c = removeContainer(containers, w)], failures)

\* the cleanup: deleteClusterDir
RaceRemoveDir ==
    \E p \in Callers :
        /\ pp.proc[p].pc = "rmdir"
        /\ RaceStep(p, [pp.proc[p] EXCEPT !.pc = "rmserver"],
                    [Engine EXCEPT !.d = dirs \ {raceName}], failures)

\* the cleanup: the removal of the server listed; when it fails DeleteCluster
\* returns
RaceRemoveServer ==
    \E p \in Callers :
        /\ pp.proc[p].pc = "rmserver"
        /\ RaceStep(p, [pp.proc[p] EXCEPT !.pc = IF \E c \in containers :
                                                      c.name = serverConfig(raceName, EmptyMap).name
                                                 THEN "netlist" ELSE "done"],
                    [Engine EXCEPT !.c = removeContainer(containers,
                                                         serverConfig(raceName, EmptyMap).name)],
                    failures)

\* the cleanup: deleteClusterNetwork lists the networks of the name
RaceListNetworks ==
    \E p \in Callers :
        /\ pp.proc[p].pc = "netlist"
        /\ RaceStep(p, [pp.proc[p] EXCEPT !.nets = NetworkCount(networks, raceName),
                                          !.pc = IF NetworkCount(networks, raceName) > 0
                                                 THEN "rmnet" ELSE "done"],
                    Engine, failures)

\* the cleanup: the removal of one network listed; its failure is a warning
RaceRemoveNetwork ==
    \E p \in Callers :
        /\ pp.proc[p].pc = "rmnet"
        /\ RaceStep(p, [pp.proc[p] EXCEPT !.nets = @ - 1,
                                          !.pc = IF pp.proc[p].nets = 1 THEN "done" ELSE "rmnet"],
                    [Engine EXCEPT !.n = networkRemove(networks, raceName)], failures)

RaceInit ==
    /\ containers = {}
    /\ networks = EmptyBag
    /\ dirs = {}
    /\ pc = "idle"
    /\ cc = NoCtx
    /\ failures = 0
    /\ rmFailures = 0
    /\ last = Outcome("none", "", FALSE, FALSE, "ok", FALSE, NoIter)
    /\ pp \in {[proc |-> [p \in Callers |-> Caller(w[p])], twoNetworks |-> FALSE] :
                 w \in [Callers -> RaceWorkers]}

RaceNext ==
    \/ RaceCheck \/ RaceNetwork \/ RacePull \/ RaceCreate \/ RaceStart \/ RaceDir
    \/ RaceReturn \/ RaceListServers \/ RaceListWorkers \/ RaceRemoveWorker
    \/ RaceRemoveDir \/ RaceRemoveServer \/ RaceListNetworks \/ RaceRemoveNetwork

RaceSpec == RaceInit /\ [][RaceNext]_vars

(***************************************************************************)
(* The environments CreateCluster gives the server and the workers.  The   *)
(* worker count, the --env entries and the two random strings are drawn at *)
(* the start; 'pp' holds them, the server's environment, and the workers'  *)
(* environments in ordinal order.                                          *)
(***************************************************************************)
\* the strings GenerateRandomString may return
RandomStrings == {"r1", "r2", "r3"}

\* the --env lists given
UserEnvs == {<<>>, <<"FOO=bar">>}

\* k3sClusterSecret and k3sToken of CreateCluster, r being the random string
clusterSecretOf(workers, r) == IF workers > 0 THEN "K3S_CLUSTER_SECRET=" \o r ELSE ""

tokenOf(workers, r) == IF workers > 0 THEN "K3S_TOKEN=" \o r ELSE ""

\* the env CreateCluster hands to createServer
serverEnvOf(workers, userEnv, k3sClusterSecret, k3sToken) ==
    <<"K3S_KUBECONFIG_OUTPUT=/output/kubeconfig.yaml">> \o userEnv
    \o (IF workers > 0 THEN <<k3sClusterSecret, k3sToken>> ELSE <<>>)

\* a worker environment without the secret and the token
workerEnvBare(userEnv, k3sClusterSecret, k3sToken, name, serverPort) ==
    userEnv \o <<"K3S_URL=https://k3d-" \o name \o "-server:" \o serverPort>>

\* the env of a worker: what CreateCluster hands to createWorker, and the
\* server's address createWorker appends
workerEnvOf(userEnv, k3sClusterSecret, k3sToken, name, serverPort) ==
    <<k3sClusterSecret, k3sToken>> \o userEnv
    \o <<"K3S_URL=https://k3d-" \o name \o "-server:" \o serverPort>>

NoEnv ==
    [op |-> "none", workers |-> 0, userEnv |-> <<>>, rand |-> <<"", "">>,
     secret |-> "", token |-> "", serverEnv |-> <<>>, workerEnvs |-> <<>>]

\* CreateCluster up to createServer
ServerEnv ==
    /\ pp.op = "none"
    /\ pp' = [pp EXCEPT
                 !.op = "server",
                 !.secret = clusterSecretOf(pp.workers, pp.rand[1]),
                 !.token = tokenOf(pp.workers, pp.rand[2]),
                 !.serverEnv = serverEnvOf(pp.workers, pp.userEnv,
                                           clusterSecretOf(pp.workers, pp.rand[1]),
                                           tokenOf(pp.workers, pp.rand[2]))]
    /\ PortsUnchanged

\* one round of the worker loop of CreateCluster
WorkerEnv ==
    /\ pp.op \in {"server", "worker"}
    /\ Len(pp.workerEnvs) < pp.workers
    /\ pp' = [pp EXCEPT
                 !.op = "worker",
                 !.workerEnvs = Append(pp.workerEnvs,
                                       workerEnvOf(pp.userEnv, pp.secret, pp.token,
                                                   resolverCluster, apiPort))]
    /\ PortsUnchanged

EnvInit ==
    /\ containers = {}
    /\ networks = EmptyBag
    /\ dirs = {}
    /\ pc = "idle"
    /\ cc = NoCtx
    /\ failures = 0
    /\ rmFailures = 0
    /\ last = Outcome("none", "", FALSE, FALSE, "ok", FALSE, NoIter)
    /\ pp \in {[NoEnv EXCEPT !.workers = w, !.userEnv = e, !.rand = <<r1, r2>>] :
                 w \in 0..MaxWorkers, e \in UserEnvs,
                 r1 \in RandomStrings, r2 \in RandomStrings}

EnvNext == ServerEnv \/ WorkerEnv

EnvSpec == EnvInit /\ [][EnvNext]_vars

(***************************************************************************)
(* The order of the engine operations of one CreateCluster call, from the  *)
(* creation of the network on.  Each operation is a step; 'pp' holds the   *)
(* position of the call, the workers and the wait asked for, the seconds   *)
(* waited, the number of workers created, the result, and the operations   *)
(* issued so far in order, each with the node it was issued for and its    *)
(* error.                                                                  *)
(***************************************************************************)
NoOrder ==
    [pc |-> "network", workers |-> 0, wait |-> -1, elapsed |-> 0, k |-> 0,
     result |-> "", ops |-> <<>>]

Issued(op, node, err) == [op |-> op, node |-> node, err |-> err]

\* a CreateCluster that goes on to the workers whatever createServer returned
stageAfterServerAlways(err, wait) == IF wait >= 0 THEN "wait" ELSE "workers"

\* where CreateCluster goes after createServer returned err
stageAfterServer(err, wait) ==
    IF err # "none" THEN "rollback"
    ELSE IF wait >= 0 THEN "wait" ELSE "workers"

\* the call moves to q, the engine to E, the failures counted to fl
OrderStep(q, E, fl) ==
    /\ containers' = E.c
    /\ networks' = E.n
    /\ dirs' = E.d
    /\ failures' = fl
    /\ pp' = q
    /\ UNCHANGED <<pc, cc, rmFailures, last>>

\* createClusterNetwork
OrderNetwork ==
    /\ pp.pc = "network"
    /\ \/ /\ failures < MaxFailures
          /\ OrderStep([pp EXCEPT !.pc = "done", !.result = "network",
                                  !.ops = Append(@, Issued("NetworkCreate", "", "create"))],
                       Engine, failures + 1)
       \/ OrderStep([pp EXCEPT !.pc = "server",
                               !.ops = Append(@, Issued("NetworkCreate", "", "none"))],
                    [Engine EXCEPT !.n = createClusterNetwork(networks, resolverCluster)],
                    failures)

\* what follows createServer, r being what it returned
OrderServerDone(r, fl) ==
    OrderStep([pp EXCEPT !.pc = stageAfterServer(r.err, pp.wait),
                         !.result = IF r.err # "none" THEN "server" ELSE "",
                         !.ops = Append(@, Issued("createServer",
                                                  GetContainerName("server", resolverCluster, -1),
                                                  r.err))],
              [Engine EXCEPT !.c = r.cs,
                             !.d = IF r.err = "none" /\ pp.wait < 0
                                   THEN dirs \cup {resolverCluster} ELSE dirs],
              fl)

\* createServer
OrderServer ==
    /\ pp.pc = "server"
    /\ \E f \in {"none", "pull", "create", "start"} :
          /\ f # "none" => failures < MaxFailures
          /\ OrderServerDone(createServer(containers, resolverCluster, EmptyMap, f),
                             IF f = "none" THEN failures ELSE failures + 1)

\* one iteration of the readiness loop
OrderWait ==
    /\ pp.pc = "wait"
    /\ IF waitExpired(pp.wait, pp.elapsed)
       THEN OrderStep([pp EXCEPT !.pc = "rollback", !.result = "timeout"], Engine, failures)
       ELSE \/ /\ failures < MaxFailures
               /\ OrderStep([pp EXCEPT !.pc = "done", !.result = "logs",
                                       !.ops = Append(@, Issued("ContainerLogs", "", "logs"))],
                            Engine, failures + 1)
            \/ OrderStep([pp EXCEPT !.pc = "workers",
                                    !.ops = Append(@, Issued("ContainerLogs", "", "none"))],
                         [Engine EXCEPT !.d = dirs \cup {resolverCluster}], failures)
            \/ /\ pp.elapsed < MaxElapsed
               /\ OrderStep([pp EXCEPT !.elapsed = @ + 1,
                                       !.ops = Append(@, Issued("ContainerLogs", "", "none"))],
                            Engine, failures)

\* what follows createWorker, r being what it returned
OrderWorkerDone(r, fl) ==
    OrderStep([pp EXCEPT !.pc = IF r.err # "none" THEN "rollback" ELSE "workers",
                         !.result = IF r.err # "none" THEN "worker" ELSE "",
                         !.k = IF r.err # "none" THEN @ ELSE @ + 1,
                         !.ops = Append(@, Issued("createWorker",
                                                  GetContainerName("worker", resolverCluster, pp.k),
                                                  r.err))],
              [Engine EXCEPT !.c = r.cs], fl)

\* the worker loop: the next worker, or the end of CreateCluster
OrderWorker ==
    /\ pp.pc = "workers"
    /\ IF pp.k = pp.workers
       THEN OrderStep([pp EXCEPT !.pc = "done", !.result = "ok"], Engine, failures)
       ELSE \E f \in {"none", "pull", "create", "start"} :
               /\ f # "none" => failures < MaxFailures
               /\ OrderWorkerDone(createWorker(containers, resolverCluster, pp.k,
                                               EmptyMap, 0, f),
                                  IF f = "none" THEN failures ELSE failures + 1)

\* the deleteCluster closure, every removal succeeding; then CreateCluster
\* returns its error
OrderRollback ==
    /\ pp.pc = "rollback"
    /\ \E order \in Orders(DOMAIN getClusters(containers, FALSE, resolverCluster)) :
          OrderStep([pp EXCEPT !.pc = "done",
                               !.ops = Append(@, Issued("DeleteCluster", "", "none"))],
                    DeleteClusterRun(Engine, FALSE, resolverCluster, order, {},
                                     [n \in ValidNames |-> 0]).E,
                    failures)

OrderInit ==
    /\ containers = {}
    /\ networks = EmptyBag
    /\ dirs = {}
    /\ pc = "idle"
    /\ cc = NoCtx
    /\ failures = 0
    /\ rmFailures = 0
    /\ last = Outcome("none", "", FALSE, FALSE, "ok", FALSE, NoIter)
    /\ pp \in {[NoOrder EXCEPT !.workers = w, !.wait = t] :
                 w \in 0..MaxWorkers, t \in WaitChoices}

OrderNext ==
    OrderNetwork \/ OrderServer \/ OrderWait \/ OrderWorker \/ OrderRollback

OrderSpec == OrderInit /\ [][OrderNext]_vars

(***************************************************************************)
(* checkClusterName alone: the name is drawn at the start, and the one     *)
(* step is the call; 'pp' holds the name and what the call gave.           *)
(***************************************************************************)
\* the names tried: a first character, a middle and a last character, of
\* every kind; the middles of 33 and 34 characters give names around the
\* largest size
NameHeads == {"", "-", "a", "Z", "9", "_"}

NameMiddles ==
    {"", "b-c", "abcdefghijklmnopqrstuvwxyz-ABCDEF0", "abcdefghijklmnopqrstuvwxyz-ABCDEF01"}

NameTails == {"", "-", "z", "0", "."}

NameInputs == {h \o m \o t : h \in NameHeads, m \in NameMiddles, t \in NameTails}

NoName == [op |-> "none", name |-> "", verdict |-> ""]

CheckName ==
    /\ pp.op = "none"
    /\ pp' = [pp EXCEPT !.op = "check", !.verdict = CheckClusterName(pp.name)]
    /\ PortsUnchanged

NameInit ==
    /\ containers = {}
    /\ networks = EmptyBag
    /\ dirs = {}
    /\ pc = "idle"
    /\ cc = NoCtx
    /\ failures = 0
    /\ rmFailures = 0
    /\ last = Outcome("none", "", FALSE, FALSE, "ok", FALSE, NoIter)
    /\ pp \in {[NoName EXCEPT !.name = n] : n \in NameInputs}

NameNext == CheckName

NameSpec == NameInit /\ [][NameNext]_vars

(***************************************************************************)
(* The properties.                                                         *)
(***************************************************************************)
\* nothing of cluster 'name' is left: no container and no network tagged
\* with it in the engine, no directory of it
NothingLeft(name) ==
    /\ \A c \in containers : c.labels.cluster # name
    /\ NetworkCount(networks, name) = 0
    /\ name \notin dirs

ServersOf(name) == {c \in containers : HasLabels(c, "k3d", "server", name)}

WorkersOf(name) == {c \in containers : HasLabels(c, "k3d", "worker", name)}

\* C1: when CreateCluster has returned because the creation of a worker
\* failed or because the readiness wait timed out, and no removal call failed
\* in it, then no container and no network tagged with the cluster's name is
\* in the engine and the cluster's directory does not exist.
C1_RollbackAfterWorkerFailureOrTimeout ==
    (/\ last.op = "create"
     /\ last.result \in {"worker", "timeout"}
     /\ ~last.rmFailed)
    => NothingLeft(last.name)

\* CreateCluster has returned the error of a worker's creation, every
\* removal call of the rollback succeeded, and the cluster's name is free
C1_Witness ==
    /\ last.op = "create"
    /\ last.result = "worker"
    /\ ~last.rmFailed
    /\ failures > 0
    /\ NothingLeft(last.name)

\* C2: on an iteration of the readiness loop with wait duration T, the loop
\* ends with the timeout error exactly when T is not 0 and the elapsed time is
\* greater than T; when the elapsed time has not exceeded T the iteration
\* fetches the server log; with T = 0 it never ends with the timeout error.
C2_TimeoutExactlyAfterT ==
    last.iter =>
        /\ (last.result = "timeout") <=> (last.wait # 0 /\ last.elapsed > last.wait)
        /\ ~(last.elapsed > last.wait) => last.fetched
        /\ last.wait = 0 => last.result # "timeout"

\* C3: in every reachable state there is, for each name, at most one server
\* container and at most one network tagged with it.
C3_OneClusterPerName ==
    \A name \in ValidNames :
        /\ Cardinality(ServersOf(name)) <= 1
        /\ NetworkCount(networks, name) <= 1

\* C4: a CreateCluster for a name whose server container exists returns the
\* already-exists error and changes neither the containers, nor the
\* networks, nor the directories.
C4_CreateOnExistingNameChangesNothing ==
    [][(/\ pc = "idle"
        /\ last'.op = "create"
        /\ ServersOf(last'.name) # {})
       => (/\ last'.result = "exists"
           /\ UNCHANGED <<containers, networks, dirs, failures, rmFailures>>)]_vars

\* CreateCluster was refused for a name in use, and the cluster of that name
\* is there with its server, a worker and its network
C4_Witness ==
    /\ last.op = "create"
    /\ last.result = "exists"
    /\ ServersOf(last.name) # {}
    /\ WorkersOf(last.name) # {}
    /\ NetworkCount(networks, last.name) = 1

\* C5: after DeleteCluster for the name of a cluster whose server exists, in
\* which no engine call failed, the command has returned no error and no
\* container and no network tagged with the name is in the engine, and the
\* cluster's directory is gone.
C5_DeleteLeavesNothing ==
    (/\ last.op = "delete"
     /\ ~last.all
     /\ last.found
     /\ ~last.rmFailed)
    => (last.result = "ok" /\ NothingLeft(last.name))

\* DeleteCluster has run on a cluster that it found, in a behaviour without
\* any failed engine call (so that the cluster was fully created), beside
\* another cluster, which is still there
C5_Witness ==
    /\ last.op = "delete"
    /\ ~last.all
    /\ last.found
    /\ failures = 0
    /\ rmFailures = 0
    /\ last.result = "ok"
    /\ NothingLeft(last.name)
    /\ \E other \in ValidNames \ {last.name} : ServersOf(other) # {}

\* C6: after DeleteCluster for a name, whatever subset of the cluster's
\* pieces existed, with no removal call failing, the command has returned no
\* error and no container and no network tagged with the name remains.
C6_DeleteCleansPartialCluster ==
    (/\ last.op = "delete"
     /\ ~last.all
     /\ ~last.rmFailed)
    => /\ last.result = "ok"
       /\ \A c \in containers : c.labels.cluster # last.name
       /\ NetworkCount(networks, last.name) = 0

\* C7: a CreateCluster that ends on a validation failure (the name is no host
\* name, or a port rule is malformed or does not compile) has created no
\* network and no container.
C7_ValidationBeforeEngine ==
    [][(/\ last'.op = "create"
        /\ last'.result \in {"name", "portspec"})
       => UNCHANGED <<containers, networks>>]_vars

\* the sum of a sequence of numbers
RECURSIVE SumSeq(_)
SumSeq(q) == IF Len(q) = 0 THEN 0 ELSE Head(q) + SumSeq(Tail(q))

\* the host port h increased by n; an unspecified host port stays so
ShiftedPort(h, n) == IF h = "" THEN "" ELSE FormatInt(ParsePort(h) + n)

\* 'set' is 'base' with every host port shifted by n, the keys and the host
\* IPs kept
ShiftedBy(base, set, n) ==
    /\ set.ExposedPorts = base.ExposedPorts
    /\ DOMAIN set.PortBindings = DOMAIN base.PortBindings
    /\ \A k \in DOMAIN base.PortBindings :
        /\ Len(set.PortBindings[k]) = Len(base.PortBindings[k])
        /\ \A j \in 1..Len(base.PortBindings[k]) :
            /\ set.PortBindings[k][j].HostIP = base.PortBindings[k][j].HostIP
            /\ set.PortBindings[k][j].HostPort =
                 ShiftedPort(base.PortBindings[k][j].HostPort, n)

\* C8: Offset(set, n) is the set with every host port increased by n, keys
\* and host IPs kept; so Offset(set, 0) is the set, and Offset applied for n
\* and then for m gives what Offset(set, n + m) gives.
C8_OffsetIsAdditive ==
    pp.op = "offset" =>
        /\ ShiftedBy(pp.base, pp.set, SumSeq(pp.steps))
        /\ pp.steps = <<0>> => pp.set = pp.base
        /\ Len(pp.steps) = 2 => pp.set = Offset(pp.base, pp.steps[1] + pp.steps[2])

\* C9: with an auto-offset base b > 0, worker i is bound, for each rule that
\* selects it with host port h, to host port h + b + i.
C9_WorkerHostPortIsShiftedByBasePlusOrdinal ==
    (pp.op = "worker" /\ pp.b > 0) => ShiftedBy(pp.base, pp.set, pp.b + pp.i)

\* C10: with the auto-offset base 0, createWorker gives every worker the
\* host bindings of its compiled port rules, unchanged.
C10_NoOffsetWithoutAutoSpreading ==
    (pp.op = "worker" /\ pp.b = 0) => pp.set = pp.base

\* createWorker has compiled, for the worker with ordinal 1 and base 0, rules
\* that bind a host port
C10_Witness ==
    /\ pp.op = "worker"
    /\ pp.b = 0
    /\ pp.i = 1
    /\ \E k \in DOMAIN pp.base.PortBindings :
          \E j \in 1..Len(pp.base.PortBindings[k]) :
              pp.base.PortBindings[k][j].HostPort = "8080"
    /\ pp.set = pp.base

\* the clusters a command with the arguments all and name works on
Targeted(all, name) == getClusters(containers, all, name)

\* the containers with one of the names 'ids' that are in state 'state'
\* after the step
LeftIn(ids, state) == {c \in containers' : c.name \in ids /\ c.state = state}

\* C11: in a DeleteCluster over several clusters the failure to remove one
\* cluster's server does not stop the command: the servers of the other
\* clusters are removed all the same, so that at most as many servers of the
\* targeted clusters are left as removal calls failed.
C11_DeleteGoesOnAfterServerFailure ==
    [][(/\ pc = "idle"
        /\ last'.op = "delete")
       => Cardinality({c \in containers' :
                          \E n \in DOMAIN Targeted(last'.all, last'.name) :
                              HasLabels(c, "k3d", "server", n)})
            <= rmFailures' - rmFailures]_vars

\* C12: StopCluster, StartCluster and DeleteCluster return success only when
\* every operation on a node succeeded: after a stop that returned no error
\* no targeted container is running, after a start that returned no error
\* every targeted container is running, and after a delete that returned no
\* error no targeted container is left.
C12_SuccessOnlyWhenEveryNodeSucceeded ==
    [][(/\ pc = "idle"
        /\ last'.op \in {"stop", "start", "delete"}
        /\ last'.result = "ok")
       => LET ids == TargetIds(Targeted(last'.all, last'.name))
          IN  /\ last'.op = "stop" => LeftIn(ids, "running") = {}
              /\ last'.op = "start" => \A c \in containers' : c.name \in ids => c.state = "running"
              /\ last'.op = "delete" => \A c \in containers' : c.name \notin ids]_vars

\* C13: StopCluster, StartCluster and DeleteCluster for one name (all =
\* false) under which no cluster exists return an error and change nothing
\* in the engine.
C13_UnknownNameIsAnError ==
    [][(/\ pc = "idle"
        /\ last'.op \in {"stop", "start", "delete"}
        /\ ~last'.all
        /\ ~last'.found)
       => (/\ last'.result # "ok"
           /\ UNCHANGED <<containers, networks, dirs>>)]_vars

\* the half of C13 that the commands keep: nothing in the engine changes
C13_UnknownNameChangesNothing ==
    [][(/\ pc = "idle"
        /\ last'.op \in {"stop", "start", "delete"}
        /\ ~last'.all
        /\ ~last'.found)
       => UNCHANGED <<containers, networks, dirs>>]_vars

\* C16: in StopCluster the failed stop of one node, worker or server, does
\* not end the command: every other node of the targeted clusters is stopped
\* all the same, those of the clusters not yet visited included, so that at
\* most as many targeted containers are left running as stop calls failed.
C16_StopGoesOnAfterAnyFailure ==
    [][(/\ pc = "idle"
        /\ last'.op = "stop")
       => Cardinality(LeftIn(TargetIds(Targeted(last'.all, last'.name)), "running"))
            <= failures' - failures]_vars

\* the states of the containers of cluster n after the step
StatesAfter(n) == {c.state : c \in {x \in containers' : x.labels.cluster = n}}

\* C14: a StopCluster in which every stop call succeeds leaves the server and
\* every worker of a targeted cluster whose nodes were all running exited,
\* and the cluster's status stopped; a StartCluster in which every start
\* call succeeds leaves every node of a targeted cluster running, and the
\* cluster's status running.
C14_StopThenStartRoundTrip ==
    [][(/\ pc = "idle"
        /\ last'.op \in {"stop", "start"}
        /\ failures' = failures)
       => \A n \in DOMAIN Targeted(last'.all, last'.name) :
            /\ (last'.op = "stop" /\ Targeted(last'.all, last'.name)[n].status = "running")
               => /\ StatesAfter(n) = {"exited"}
                  /\ getClusters(containers', FALSE, n)[n].status = "stopped"
            /\ last'.op = "start"
               => /\ StatesAfter(n) = {"running"}
                  /\ getClusters(containers', FALSE, n)[n].status = "running"]_vars

\* StopCluster has run on a cluster with two workers, in a behaviour without
\* any failed engine call, and its server and both workers are exited
C14_Witness ==
    /\ last.op = "stop"
    /\ ~last.all
    /\ last.found
    /\ last.result = "ok"
    /\ failures = 0
    /\ rmFailures = 0
    /\ Cardinality(WorkersOf(last.name)) = 2
    /\ \A c \in ServersOf(last.name) \cup WorkersOf(last.name) : c.state = "exited"
    /\ getClusters(containers, FALSE, last.name)[last.name].status = "stopped"

\* C15: StartCluster starts the server of a cluster before its workers: when
\* the server's start failed (the server is not running afterwards) no worker
\* of that cluster was started; and a worker's failed start does not keep
\* the other workers from being started: after a StartCluster that returned
\* no error at most as many targeted containers are not running as start
\* calls failed.
C15_ServerFirstThenEveryWorker ==
    [][(/\ pc = "idle"
        /\ last'.op = "start")
       => LET clusters == Targeted(last'.all, last'.name)
          IN  /\ \A n \in DOMAIN clusters :
                    (\E c \in containers' : c.name = clusters[n].server.name
                                             /\ c.state # "running")
                    => clusters[n].workers \subseteq containers'
              /\ last'.result = "ok"
                 => Cardinality({c \in containers' : c.name \in TargetIds(clusters)
                                                    /\ c.state # "running"})
                      <= failures' - failures]_vars

\* StartCluster has ended on the failed start of the server of a stopped
\* cluster with workers, and the server and the workers are still exited
C15_Witness ==
    /\ last.op = "start"
    /\ ~last.all
    /\ last.found
    /\ last.result = "server"
    /\ WorkersOf(last.name) # {}
    /\ \A c \in ServersOf(last.name) \cup WorkersOf(last.name) : c.state = "exited"

\* the step ends a CreateCluster with success
CreateEnds == last'.op = "create" /\ last'.result = "ok"

\* the containers the engine held when the CreateCluster that the step is
\* part of began: during the readiness wait the cluster's own server is
\* there already
HeldBefore == containers \ (IF pc = "waiting" THEN ServersOf(cc.name) ELSE {})

\* what C18 expects of the list after the step: one cluster, of the name
\* created, with one server and as many workers as were asked for, running
\* when all its containers are
ListedAlone ==
    LET clusters == getClusters(containers', TRUE, "")
    IN  /\ DOMAIN clusters = {last'.name}
        /\ Cardinality({c \in containers' :
                           HasLabels(c, "k3d", "server", last'.name)}) = 1
        /\ Cardinality(clusters[last'.name].workers) = last'.workers
        /\ StatesAfter(last'.name) = {"running"}
           => clusters[last'.name].status = "running"

\* C18: after a successful CreateCluster(name, workers = N) on an engine in
\* which getClusters finds no cluster, getClusters(true, "") returns exactly
\* one cluster, keyed by the name, with one server and exactly N workers,
\* and its status is running when all its containers are running.
C18_CreateThenListShowsTheCluster ==
    [][(CreateEnds /\ DOMAIN getClusters(HeldBefore, TRUE, "") = {}) => ListedAlone]_vars

\* the same on an engine that holds no container of any cluster's
C18_CreateOnCleanEngine ==
    [][(CreateEnds /\ HeldBefore = {}) => ListedAlone]_vars

\* C17: getClusterStatus returns unhealthy whenever the raw state of at
\* least one worker differs from the server's; otherwise stopped when the
\* server's state is exited, and the server's raw state in every other case;
\* so a cluster without workers is never unhealthy.
C17_StatusClassification ==
    pp.op = "status" =>
        /\ (\E i \in 1..Len(pp.workers) : pp.workers[i] # pp.server)
           => pp.status = "unhealthy"
        /\ (\A i \in 1..Len(pp.workers) : pp.workers[i] = pp.server)
           => pp.status = (IF pp.server = "exited" THEN "stopped" ELSE pp.server)
        /\ Len(pp.workers) = 0 => pp.status # "unhealthy"

\* getClusterStatus has classified a stopped server with two stopped workers
C17_Witness ==
    /\ pp.op = "status"
    /\ pp.server = "exited"
    /\ pp.workers = <<"exited", "exited">>
    /\ pp.status = "stopped"

\* the rules map m attaches to one of the keys
AttachedTo(m, keys) == UNION {{MapGet(m, k)[i] : i \in 1..Len(MapGet(m, k))} : k \in keys}

\* the lists of map m under the keys, one after the other
RECURSIVE ListsOf(_, _)
ListsOf(m, keys) ==
    IF Len(keys) = 0 THEN <<>> ELSE MapGet(m, Head(keys)) \o ListsOf(m, Tail(keys))

\* where x is first seen in the sequence q
FirstSeen(q, x) == CHOOSE i \in 1..Len(q) : q[i] = x /\ \A j \in 1..(i - 1) : q[j] # x

\* the groups a role belongs to, as the specification lists them
GroupsOfRole(role) ==
    IF role = "worker" THEN <<"all", "workers">> ELSE <<"all", "server", "master">>

\* C19: MergePortSpecs returns, for a worker, the rules attached to all, to
\* workers or to the node's name, and for a server those attached to all,
\* server, master or its name, and no other rule; each of them once, in the
\* order in which they are first seen in the lists of the role's groups
\* followed by the list of the name.
C19_MergeByRoleOnceInOrder ==
    pp.op = "merge" =>
        LET seen == ListsOf(pp.map, Append(GroupsOfRole(pp.role), pp.node))
        IN  /\ {pp.merged[i] : i \in 1..Len(pp.merged)}
                 = AttachedTo(pp.map, {"all", pp.node}
                                       \cup (IF pp.role = "worker" THEN {"workers"}
                                             ELSE {"server", "master"}))
            /\ \A i, j \in 1..Len(pp.merged) :
                  i < j => /\ pp.merged[i] # pp.merged[j]
                           /\ FirstSeen(seen, pp.merged[i]) < FirstSeen(seen, pp.merged[j])

\* MergePortSpecs has merged the rules of worker 0, one of which is attached
\* to it through all, through workers (twice) and through its name, beside a
\* rule attached to master alone: the one rule is returned, once
C19_Witness ==
    /\ pp.op = "merge"
    /\ pp.role = "worker"
    /\ MapGet(pp.map, "all") = <<"8080:80">>
    /\ MapGet(pp.map, "workers") = <<"8080:80", "8080:80">>
    /\ MapGet(pp.map, pp.node) = <<"8080:80">>
    /\ MapGet(pp.map, "master") = <<"9090:90">>
    /\ pp.merged = <<"8080:80">>

\* the text s holds the character '@'
HasAt(s) == \E i \in 1..Len(s) : CharAt(s, i) = "@"

\* C20: extractNodes returns the text before the first '@' of the rule as
\* the port portion and the '@'-separated tokens after it, in their order,
\* as the selectors; for a rule without '@' the one selector is the default
\* selector.
C20_ExtractSplitsAtEveryAt ==
    pp.op = "extract" =>
        IF HasAt(pp.rule)
        THEN /\ ~HasAt(pp.portSpec)
             /\ \A i \in 1..Len(pp.nodes) : ~HasAt(pp.nodes[i])
             /\ Join(<<pp.portSpec>> \o pp.nodes, "@") = pp.rule
        ELSE /\ pp.portSpec = pp.rule
             /\ pp.nodes = <<defaultNodes>>

\* extractNodes has split a rule with two selectors
C20_Witness ==
    /\ pp.op = "extract"
    /\ pp.rule = "443:443@server@workers"
    /\ pp.portSpec = "443:443"
    /\ pp.nodes = <<"server", "workers">>

\* the node names mapNodesToPortSpecs is given as known
CreatedNodes == GetAllContainerNames(resolverCluster, defaultServerCount, MaxWorkers)

\* the selectors a rule may name: the role groups and the known node names
KnownSelectors ==
    {"all", "server", "master", "workers"}
    \cup {CreatedNodes[i] : i \in 1..Len(CreatedNodes)}

\* the tokens of a rule after its first '@'
SelectorsOf(rule) == {Split(rule, "@")[i] : i \in 2..Len(Split(rule, "@"))}

\* C21: mapNodesToPortSpecs records no rule under a selector that is neither
\* a role group nor one of the known node names: either the request is
\* rejected and nothing is recorded, or every such selector of every rule is
\* left out, while each rule is recorded under each of its known selectors.
C21_UnknownSelectorsNeverRecorded ==
    pp.op = "map" =>
        /\ DOMAIN pp.map \subseteq KnownSelectors
        /\ ~pp.ok => pp.map = EmptyMap
        /\ pp.ok => \A k \in 1..Len(pp.specs) :
                       \A sel \in SelectorsOf(pp.specs[k]) :
                           (sel \in KnownSelectors)
                           <=> (\E i \in 1..Len(MapGet(pp.map, sel)) :
                                   MapGet(pp.map, sel)[i] = Split(pp.specs[k], "@")[1])

\* mapNodesToPortSpecs has mapped three rules, each with a selector that is
\* no node of the cluster, and recorded the one known selector alone
C21_Witness ==
    /\ pp.op = "map"
    /\ pp.ok
    /\ Len(pp.specs) = 3
    /\ SelectorsOf(pp.specs[1]) = {"nosuch"}
    /\ SelectorsOf(pp.specs[2]) = {"workers", "k3d-t2-server"}
    /\ DOMAIN pp.map = {"workers"}
    /\ pp.map["workers"] = <<"9090:90">>

\* the text after the last '-' of a name
LastToken(name) == Split(name, "-")[Len(Split(name, "-"))]

\* C22: within one cluster the server's name and the names of the workers
\* 0..N-1 are pairwise different; the server's name does not end in a
\* number, and the name of each worker ends in its zero-based ordinal.
C22_NamesInjectiveWithinCluster ==
    pp.op = "name" =>
        /\ \A i, j \in 1..Len(pp.names) : pp.names[i] = pp.names[j] => i = j
        /\ ~IsDigit(CharAt(pp.names[1], Len(pp.names[1])))
        /\ \A i \in 2..Len(pp.names) :
              /\ Len(LastToken(pp.names[i])) > 0
              /\ AllDigits(LastToken(pp.names[i]))
              /\ DigitsValue(LastToken(pp.names[i])) = i - 2

\* the nodes of a cluster with eleven workers have been named: the last
\* worker's ordinal has two digits
C22_Witness ==
    /\ pp.op = "name"
    /\ pp.cluster = "t1"
    /\ Len(pp.names) = 12
    /\ pp.names[1] = "k3d-t1-server"
    /\ pp.names[2] = "k3d-t1-worker-0"
    /\ pp.names[12] = "k3d-t1-worker-10"

\* C23: the node names CreateCluster hands to the port resolver as literal
\* selectors are the container names createServer and createWorker give the
\* nodes of the cluster; so a rule addressed to the server's container name
\* is among the rules MergePortSpecs returns for the server.
C23_OneNamePerNodeEverywhere ==
    /\ pp.op = "name" =>
          {pp.selectors[i] : i \in 1..Len(pp.selectors)}
            = {pp.names[i] : i \in 1..Len(pp.names)}
    /\ (pp.op = "merge" /\ pp.role = "server") =>
          \A k \in 1..Len(pp.specs) :
              pp.node \in SelectorsOf(pp.specs[k])
              => \E i \in 1..Len(pp.merged) : pp.merged[i] = Split(pp.specs[k], "@")[1]

\* C24: every getKubeConfig call that reports no error returns the path of
\* the local credentials file of the cluster, whether the call extracted the
\* file from the server container or the local file existed already.
C24_KubeConfigPathReturned ==
    (pp.op = "kube" /\ pp.err = "none") => pp.path = getClusterKubeConfigPath(pp.cluster)

\* C25: a getKubeConfig call made while the local credentials file exists
\* makes no copy out of the container and leaves the file as it is; a call
\* made while the file does not exist, and that reports no error, copies the
\* file out of the container again.
C25_ExtractionSkippedIfFileExists ==
    [][pp'.op = "kube" =>
          IF pp'.cluster \in DOMAIN pp.files
          THEN pp'.copies = pp.copies /\ pp'.files = pp.files
          ELSE pp'.err = "none" =>
                  /\ pp'.copies = pp.copies + 1
                  /\ pp'.files[pp'.cluster] = pp.remote]_vars

\* getKubeConfig was called with the local file in place, after the server
\* had written a newer file: no second copy was made and the local file
\* still holds the older content
C25_Witness ==
    /\ pp.op = "kube"
    /\ pp.err = "none"
    /\ pp.path = ""
    /\ pp.copies = 1
    /\ pp.cluster \in DOMAIN pp.files
    /\ pp.files[pp.cluster] # pp.remote

\* C26: two overlapping CreateCluster calls for one name can both pass the
\* pre-check; whenever both did and both have returned, two networks tagged
\* with the name were created or one of the calls returned an error; and in
\* no state are there two server containers tagged with the name.
C26_RaceGivesTwoNetworksOrAFailure ==
    /\ Cardinality(ServersOf(raceName)) <= 1
    /\ (\A p \in Callers : pp.proc[p].passed /\ pp.proc[p].pc = "done")
       => (pp.twoNetworks \/ \E p \in Callers : pp.proc[p].result # "ok")

\* both calls passed the pre-check and have returned: one created the
\* cluster, the other failed on the server's name, and two networks of the
\* name were there
C26_Witness ==
    /\ \A p \in Callers : pp.proc[p].passed /\ pp.proc[p].pc = "done"
    /\ \E p, q \in Callers : pp.proc[p].result = "ok" /\ pp.proc[q].result = "server"
    /\ pp.twoNetworks
    /\ failures = 0

\* C27: when CreateCluster has failed and run its cleanup, and resources of
\* the cluster remain in the engine, what the caller is told differs from
\* what it is told after a failed create whose cleanup removed everything:
\* the error returned is the same in both cases, so a removal call must have
\* failed and left its line in the log.
C27_FailedCleanupIsReported ==
    (/\ last.op = "create"
     /\ last.result \in {"server", "worker", "timeout"}
     /\ ~NothingLeft(last.name))
    => last.rmFailed

\* the text s begins with the text t
StartsWith(s, t) == Len(s) >= Len(t) /\ SubSeq(s, 1, Len(t)) = t

\* container c carries app=k3d, a component label server or worker, a
\* created label, and as cluster label the cluster name its name is made of
ContainerLabelled(c) ==
    /\ DOMAIN c.labels = {"app", "component", "created", "cluster"}
    /\ c.labels.app = "k3d"
    /\ c.labels.component \in {"server", "worker"}
    /\ c.labels.cluster \in ValidNames
    /\ StartsWith(c.name, defaultContainerNamePrefix \o "-" \o c.labels.cluster
                            \o "-" \o c.labels.component)

\* network n carries app=k3d and as cluster label the cluster name, which is
\* the network's name
NetworkLabelled(n) ==
    /\ {"app", "cluster"} \subseteq DOMAIN n.labels
    /\ n.labels.app = "k3d"
    /\ n.labels.cluster = n.name
    /\ n.name \in ValidNames

\* C28 as stated: every container and every network in the engine carries
\* app=k3d, a component label (server or worker) and the cluster label, and
\* every container a created label.
C28_EveryResourceFullyLabelled ==
    /\ \A c \in containers : ContainerLabelled(c)
    /\ \A n \in DOMAIN networks :
          /\ NetworkLabelled(n)
          /\ "component" \in DOMAIN n.labels
          /\ n.labels.component \in {"server", "worker"}

\* C28, amended: every container carries app=k3d, a component label (server
\* or worker), a created label and the cluster label; every network carries
\* app=k3d and the cluster label, and no component label.
C28_ContainersAndNetworksLabelled ==
    /\ \A c \in containers : ContainerLabelled(c)
    /\ \A n \in DOMAIN networks : NetworkLabelled(n) /\ "component" \notin DOMAIN n.labels

\* a cluster with two workers has been created: its server, its workers and
\* its network are in the engine
C28_Witness ==
    /\ last.op = "create"
    /\ last.result = "ok"
    /\ Cardinality(ServersOf(last.name)) = 1
    /\ Cardinality(WorkersOf(last.name)) = 2
    /\ NetworkCount(networks, last.name) = 1

\* the entries of the environment env that set the variable key
EntriesFor(env, key) ==
    {env[i] : i \in {j \in 1..Len(env) : StartsWith(env[j], key \o "=")}}

\* C29: in a CreateCluster with workers the server's environment holds one
\* cluster-secret entry and one token entry, and the environment of every
\* worker created holds the same two entries; in a CreateCluster without
\* workers the server's environment holds neither.
C29_OneSecretSharedByAllNodes ==
    pp.op \in {"server", "worker"} =>
        \A key \in {"K3S_CLUSTER_SECRET", "K3S_TOKEN"} :
            IF pp.workers > 0
            THEN /\ Cardinality(EntriesFor(pp.serverEnv, key)) = 1
                 /\ \A e \in EntriesFor(pp.serverEnv, key) : Len(e) > Len(key) + 1
                 /\ \A i \in 1..Len(pp.workerEnvs) :
                       EntriesFor(pp.workerEnvs[i], key) = EntriesFor(pp.serverEnv, key)
            ELSE EntriesFor(pp.serverEnv, key) = {}

\* the environments of a server and two workers have been built, with
\* different random strings for the secret and the token
C29_Witness ==
    /\ pp.op = "worker"
    /\ pp.workers = 2
    /\ Len(pp.workerEnvs) = 2
    /\ pp.rand[1] # pp.rand[2]
    /\ "K3S_CLUSTER_SECRET=" \o pp.rand[1] \in EntriesFor(pp.serverEnv, "K3S_CLUSTER_SECRET")
    /\ "K3S_TOKEN=" \o pp.rand[2] \in EntriesFor(pp.workerEnvs[2], "K3S_TOKEN")

\* the positions of the operations op among those issued
IssuedAt(op) == {i \in 1..Len(pp.ops) : pp.ops[i].op = op}

\* C30: in one CreateCluster call the network is created before the server;
\* when a wait was asked for, the readiness loop has run and every read of
\* the log precedes the first worker; the workers are created after the
\* server, one after the other in the order 0, 1, ..; and no worker is
\* created when the creation of the server failed.
C30_OperationsInFixedOrder ==
    /\ \A s \in IssuedAt("createServer") :
          \E n \in IssuedAt("NetworkCreate") : n < s /\ pp.ops[n].err = "none"
    /\ \A w \in IssuedAt("createWorker") :
          /\ \E s \in IssuedAt("createServer") : s < w /\ pp.ops[s].err = "none"
          /\ \A l \in IssuedAt("ContainerLogs") : l < w
          /\ pp.wait >= 0 => IssuedAt("ContainerLogs") # {}
          /\ pp.ops[w].node =
                GetContainerName("worker", resolverCluster,
                                 Cardinality({v \in IssuedAt("createWorker") : v < w}))
          /\ \A v \in IssuedAt("createWorker") : v < w => pp.ops[v].err = "none"
    /\ (\E s \in IssuedAt("createServer") : pp.ops[s].err # "none")
          => IssuedAt("createWorker") = {}

\* a CreateCluster with a wait and two workers has ended well: the network,
\* the server, two reads of the log, then the workers 0 and 1
C30_Witness ==
    /\ pp.pc = "done"
    /\ pp.result = "ok"
    /\ pp.wait = 0
    /\ Len(pp.ops) = 6
    /\ [i \in 1..6 |-> pp.ops[i].op] =
          <<"NetworkCreate", "createServer", "ContainerLogs", "ContainerLogs",
            "createWorker", "createWorker">>
    /\ pp.ops[5].node = "k3d-t1-worker-0"
    /\ pp.ops[6].node = "k3d-t1-worker-1"
    /\ Cardinality(WorkersOf(resolverCluster)) = 2

\* C31: when DeleteCluster of one cluster fails at the removal of the
\* server, the cluster's bookkeeping directory and its networks are as they
\* were before the command: the directory and the network come after the
\* server in the order of the steps.
C31_ServerFailureLeavesDirAndNetwork ==
    [][(/\ pc = "idle"
        /\ last'.op = "delete"
        /\ ~last'.all
        /\ last'.result = "server")
       => (/\ (last'.name \in dirs) = (last'.name \in dirs')
           /\ NetworkCount(networks', last'.name) = NetworkCount(networks, last'.name))]_vars

\* C32: a CreateCluster whose wait duration is not 0 always leaves the
\* readiness loop; it leaves it with the timeout error only on an iteration
\* at which the time elapsed is greater than the wait duration, and an
\* iteration before that reads the server's log, where the readiness line
\* ends the loop with success.
C32_WaitLoopEndsByMarkerOrTimeout ==
    /\ [][(pc = "waiting" /\ cc.wait > 0)
          => (/\ last'.result = "timeout" => cc.elapsed > cc.wait
              /\ ~(cc.elapsed > cc.wait) => last'.fetched)]_vars
    /\ (pc = "waiting" /\ cc.wait > 0) ~> (pc = "idle")

\* C33: every PublishedPorts value that CreatePublishedPorts, AddPort and
\* Offset produce, in any sequence, has the key set of its binding map equal
\* to its set of exposed ports.
C33_ExposedIffBound ==
    pp.op \in {"compile", "addport", "offset", "worker"} =>
        pp.set.ExposedPorts = DOMAIN pp.set.PortBindings

\* a set compiled from a rule, with a port of another protocol added and
\* then shifted: two keys, each exposed and bound
C33_Witness ==
    /\ pp.op = "offset"
    /\ pp.added = 1
    /\ pp.specs = <<"8080:80@workers">>
    /\ pp.set.ExposedPorts = {"80/tcp", "53/udp"}
    /\ DOMAIN pp.set.PortBindings = {"80/tcp", "53/udp"}

\* what makes a container a node of a cluster: its name, which holds the
\* role and the ordinal, and its labels
NodesIn(cs) == {[name |-> c.name, labels |-> c.labels] : c \in cs}

\* C34: a StopCluster or a StartCluster, whatever it targets and whichever
\* of its calls fail, leaves the nodes as they were, by name, role, ordinal
\* and labels, and leaves the networks and the directories as they were.
C34_StopStartKeepTheNodes ==
    [][(pc = "idle" /\ last'.op \in {"stop", "start"})
       => (/\ NodesIn(containers') = NodesIn(containers)
           /\ Cardinality(containers') = Cardinality(containers)
           /\ networks' = networks
           /\ dirs' = dirs)]_vars

\* a cluster with two workers was stopped and started again, the start of
\* worker 1 failing: the server and the workers 0 and 1 are all there
C34_Witness ==
    /\ last.op = "start"
    /\ last.found
    /\ last.result = "ok"
    /\ failures = 1
    /\ {c.name : c \in containers} = {"k3d-t1-server", "k3d-t1-worker-0", "k3d-t1-worker-1"}
    /\ \A c \in containers : (c.state = "exited") = (c.name = "k3d-t1-worker-1")
    /\ NetworkCount(networks, "t1") = 1

\* the characters a cluster name may hold
AllowedChars == "abcdefghijklmnopqrstuvwxyzABCDEFGHIJKLMNOPQRSTUVWXYZ0123456789-"

IsAllowed(c) == \E j \in 1..Len(AllowedChars) : SubSeq(AllowedChars, j, j) = c

\* C35: checkClusterName accepts a name that is not empty exactly when the
\* name has at most 35 characters, all of them letters, digits or '-', and
\* neither the first nor the last is '-'; every other such name gets an
\* error.
C35_AcceptsExactlyHostSafeNames ==
    (pp.op = "check" /\ pp.name # "") =>
        /\ pp.verdict \in {"ok", "too long", "dash", "chars"}
        /\ (pp.verdict = "ok") <=>
              /\ Len(pp.name) <= 35
              /\ \A i \in 1..Len(pp.name) : IsAllowed(SubSeq(pp.name, i, i))
              /\ SubSeq(pp.name, 1, 1) # "-"
              /\ SubSeq(pp.name, Len(pp.name), Len(pp.name)) # "-"

\* a name of 35 characters with a dash inside has been accepted
C35_Witness ==
    /\ pp.op = "check"
    /\ Len(pp.name) = 35
    /\ \E i \in 2..34 : SubSeq(pp.name, i, i) = "-"
    /\ pp.verdict = "ok"

\* a name of 36 allowed characters has been refused
C35_WitnessTooLong ==
    /\ pp.op = "check"
    /\ Len(pp.name) = 36
    /\ \A i \in 1..36 : IsAllowed(SubSeq(pp.name, i, i))
    /\ pp.verdict = "too long"

\* C40: checkClusterName returns a verdict, nil or an error, for every name,
\* the empty name included: no call ends the program instead.
C40_AlwaysAVerdict ==
    pp.op = "check" => pp.verdict \in {"ok", "too long", "dash", "chars"}

\* C36: when CreateCluster ends with an error that came after the creation
\* of its network (the creation of the server failed, a port rule did not
\* compile, the server's log could not be read), and no removal call of its
\* cleanup failed, no container and no network tagged with the cluster's
\* name is left.
C36_ErrorAfterNetworkLeavesNothing ==
    (/\ pc = "idle"
     /\ last.op = "create"
     /\ last.result \in {"server", "portspec", "logs"}
     /\ ~last.rmFailed)
    => (/\ \A c \in containers : c.labels.cluster # last.name
        /\ NetworkCount(networks, last.name) = 0)

\* C37: of two overlapping CreateCluster calls for one name, the cleanup of
\* the one that fails leaves the server of the other, which is past its
\* createServer, in the engine; and a call that returns success has its
\* server in the engine when it returns.
C37_RollbackSparesTheOtherCaller ==
    [][\A p \in Callers :
         /\ (/\ pp.proc[p].pc = "rmserver"
             /\ \E q \in Callers \ {p} :
                   pp.proc[q].pc \in {"dir", "pull", "create", "start", "return"}
                   /\ (pp.proc[q].pc = "dir" \/ pp.proc[q].k >= 0))
            => ServersOf(raceName)' = ServersOf(raceName)
         /\ (/\ pp.proc[p].pc # "done"
             /\ pp'.proc[p].pc = "done"
             /\ pp'.proc[p].result = "ok")
            => ServersOf(raceName)' # {}]_vars

\* C39: a binding without host port has no host port after Offset, whatever
\* the offsets applied, by Offset itself and by createWorker's auto-offset.
C39_OffsetKeepsUnspecifiedHostPort ==
    pp.op \in {"offset", "worker"} =>
        \A k \in DOMAIN pp.base.PortBindings :
            \A i \in 1..Len(pp.base.PortBindings[k]) :
                pp.base.PortBindings[k][i].HostPort = ""
                    => pp.set.PortBindings[k][i].HostPort = ""

\* C38: in every reachable state every worker container belongs to a cluster
\* that getClusters(true, "") returns: a server container with the worker's
\* cluster label exists.
C38_EveryWorkerHasItsServer ==
    \A c \in containers :
        c.labels.component = "worker"
            => c.labels.cluster \in DOMAIN getClusters(containers, TRUE, "")

====
